---- MODULE Spec2Model ----
(***************************************************************************)
(* State-machine model of the HDIL backend's route handlers: the document  *)
(* collections (polls, workshops, feedback questions and responses,        *)
(* updates, industries, emergency contacts, users) and the Express         *)
(* handlers that read and write them through                               *)
(* Mongoose 6 (package.json pins "mongoose": "^6.0.12").                   *)
(*                                                                         *)
(* A handler runs to completion between two awaits, so every await of a    *)
(* store call is a point where another request may run.  A handler is one  *)
(* action per store call it awaits and keeps what it read in a request     *)
(* slot: vote, register, submit response and delete question have slots of *)
(* their own, the handlers that await a read and then a write share the    *)
(* slots of opReq.  Every response is written to reply, which holds the    *)
(* last response sent.                                                     *)
(*                                                                         *)
(* Conventions: an optional value is a sequence of length 0 or 1 (<<>> is  *)
(* JavaScript's undefined / null, <<x>> is x); a string whose characters   *)
(* matter is a sequence of characters; a JavaScript array index i is index *)
(* i + 1 here; a collection is a function from the ids of its documents;   *)
(* ids are handed out by a counter and never reused (ObjectIds); time is a *)
(* natural number.                                                         *)
(***************************************************************************)
EXTENDS Integers, Sequences, FiniteSets, TLC

VARIABLES
    now,          \* the clock read by new Date()
    reply,        \* the last response sent, with the request it answers
    polls,        \* Poll collection
    pollSeq,      \* Poll ids handed out so far
    voteReq,      \* PUT /api/polls/vote/:id requests in flight
    voteOk,       \* per stored poll, the number of vote requests answered 200
    workshops,    \* Workshop collection
    workshopSeq,  \* Workshop ids handed out so far
    regReq,       \* POST /api/workshops/:id/register requests in flight
    questions,    \* FeedbackQuestion collection
    questionSeq,  \* FeedbackQuestion ids handed out so far
    responses,    \* FeedbackResponse collection
    responseSeq,  \* FeedbackResponse ids handed out so far
    submitReq,    \* POST /api/feedback/responses requests in flight
    delReq,       \* DELETE /api/feedback/questions/:id requests in flight
    updates,      \* Update collection
    updateSeq,    \* Update ids handed out so far
    industries,   \* Industry collection
    industrySeq,  \* Industry ids handed out so far
    contacts,     \* EmergencyContact collection
    contactSeq,   \* EmergencyContact ids handed out so far
    users,        \* User collection
    userSeq,      \* User ids handed out so far
    tokens,       \* payloads of the tokens issued so far
    opReq         \* requests in flight between the two store calls of a handler

vars == <<now, reply, polls, pollSeq, voteReq, voteOk, workshops, workshopSeq,
          regReq, questions, questionSeq, responses, responseSeq, submitReq,
          delReq, updates, updateSeq, industries, industrySeq, contacts,
          contactSeq, users, userSeq, tokens, opReq>>

pollVars == <<polls, pollSeq, voteReq, voteOk>>
workshopVars == <<workshops, workshopSeq, regReq>>
feedbackVars == <<questions, questionSeq, responses, responseSeq, submitReq, delReq>>
updateVars == <<updates, updateSeq>>
industryVars == <<industries, industrySeq>>
contactVars == <<contacts, contactSeq>>
userVars == <<users, userSeq, tokens>>
directoryVars == <<industries, industrySeq, contacts, contactSeq, users, userSeq, tokens>>

(***************************************************************************)
(* Bounds of the model.                                                    *)
(***************************************************************************)
MaxTime == 1
MaxPolls == 1
MaxOptions == 2
MaxVoteReqs == 2
MaxWorkshops == 1
MaxCapacity == 1
MaxRegReqs == 2
MaxQuestions == 1
MaxResponses == 2
MaxSubmitReqs == 2
MaxDelReqs == 1
MaxUpdates == 2
MaxIndustries == 2
MaxContacts == 2
MaxUsers == 1
MaxUserTime == 4
MaxOpReqs == 2
MaxInFlight == 2

(***************************************************************************)
(* Callers: req.user as the auth middleware decodes it from the token.     *)
(***************************************************************************)
Callers ==
    { [id |-> "a", role |-> "member"],
      [id |-> "adm", role |-> "admin"] }

\* a role check that lets every authenticated caller through
IsAuthenticated(c) == c.role \in {"member", "admin"}

IsAdmin(c) == c.role = "admin"

None == << >>
Some(x) == << x >>

\* res.status(status).json({ msg }) in answer to operation op by user on target
Reply(op, user, target, status, msg) ==
    [op |-> op, user |-> user, target |-> target, status |-> status, msg |-> msg]

\* Array.prototype.includes on a Mongoose array of ids
Includes(arr, x) == \E i \in 1..Len(arr) : arr[i] = x

\* number of occurrences of x in arr
Occurrences(arr, x) == Cardinality({ i \in 1..Len(arr) : arr[i] = x })

RECURSIVE SumSeq(_)
SumSeq(s) == IF s = << >> THEN 0 ELSE Head(s) + SumSeq(Tail(s))

\* the request slot a new request takes: the first free one
FirstIdle(reqs, r) ==
    /\ reqs[r].pc = "idle"
    /\ \A s \in DOMAIN reqs : s < r => reqs[s].pc # "idle"

(***************************************************************************)
(* Requests between the first and the second store call of their handler.  *)
(* A slot holds the operation, the caller, the id the request is about and *)
(* what the second call needs of the request and of the document read.     *)
(***************************************************************************)
OpReqIds == 1..MaxOpReqs

IdleOp == [pc |-> "idle", op |-> "", user |-> "", target |-> 0, body |-> None]

\* a request whose first store call has returned a document
Found(op, user, target, body) ==
    [pc |-> "found", op |-> op, user |-> user, target |-> target, body |-> body]

\* slot r holds a request of operation op that awaits its second store call
Awaits(r, op) == opReq[r].pc = "found" /\ opReq[r].op = op

OpsInFlight == { r \in OpReqIds : opReq[r].pc # "idle" }

\* findByIdAndDelete-like outcome of doc.remove(): the collection without id
Without(coll, id) == [ x \in DOMAIN coll \ {id} |-> coll[x] ]

\* the clock moves on, up to max
Clock(max) ==
    /\ now < max
    /\ now' = now + 1
    /\ UNCHANGED <<opReq, directoryVars, reply, pollVars, workshopVars, feedbackVars, updateVars>>

(***************************************************************************)
(* Polls: src/routes/polls.js (lines 1-150), src/unnamed/part_001          *)
(***************************************************************************)
MinOptions == 2

VoteReqIds == 1..MaxVoteReqs
PollIdInputs == 1..MaxPolls

\* A value of a request body as JavaScript uses it in a comparison and as a
\* property key: number is the number it converts to (None for NaN) and key
\* the property it names when it is no number ("" for a number, which names an
\* index).  undefined converts to NaN and names the property "undefined".
Js(number, key) == [number |-> number, key |-> key]

\* req.body.optionId: a number, missing (undefined), or a string that is not
\* numeric
OptionIdInputs ==
    { Js(Some(i), "") : i \in (0 - 1)..MaxOptions }
       \cup { Js(None, k) : k \in {"undefined", "length"} }

\* the property names for which poll.options[name] is neither undefined nor
\* null: the properties every array has
ArrayProperties == {"length", "map", "constructor"}
ExpiresAtInputs == { None } \cup { Some(t) : t \in 0..MaxTime }

IdleVote == [pc |-> "idle", user |-> "", poll |-> 0, set |-> << >>]

\* new Date(poll.expiresAt) < new Date()
PollExpired(doc, t) == doc.expiresAt < t

\* a membership test that compares the stored ObjectIds with the token's
\* string id by identity, which never matches
AlreadyVotedByIdentity(doc, uid) == FALSE

\* poll.votedBy.includes(req.user.id)
AlreadyVoted(doc, uid) == Includes(doc.votedBy, uid)

\* optionId < 0 || optionId >= poll.options.length: both comparisons are
\* false when optionId converts to NaN
InvalidOption(doc, optionId) ==
    /\ optionId.number # None
    /\ optionId.number[1] < 0 \/ optionId.number[1] >= Len(doc.options)

\* POST /api/polls: validation, then the role check, then save
CreatePoll(c, nOptions, expiresAt) ==
    /\ pollSeq < MaxPolls
    /\ IF nOptions < MinOptions \/ expiresAt = None
       THEN /\ reply' = Reply("createPoll", c.id, 0, 400, "errors")
            /\ UNCHANGED <<polls, pollSeq, voteOk>>
       ELSE IF ~IsAdmin(c)
       THEN /\ reply' = Reply("createPoll", c.id, 0, 401, "Not authorized")
            /\ UNCHANGED <<polls, pollSeq, voteOk>>
       ELSE /\ polls' = [ p \in DOMAIN polls \cup {pollSeq + 1} |->
                            IF p = pollSeq + 1
                            THEN [options |-> [ i \in 1..nOptions |-> 0 ],
                                  votedBy |-> << >>,
                                  expiresAt |-> expiresAt[1],
                                  createdBy |-> c.id]
                            ELSE polls[p] ]
            /\ voteOk' = [ p \in DOMAIN voteOk \cup {pollSeq + 1} |->
                             IF p = pollSeq + 1 THEN 0 ELSE voteOk[p] ]
            /\ pollSeq' = pollSeq + 1
            /\ reply' = Reply("createPoll", c.id, pollSeq + 1, 200, "")
    /\ UNCHANGED <<opReq, directoryVars, now, voteReq, workshopVars, feedbackVars, updateVars>>

\* DELETE /api/polls/:id up to its await poll.remove(): the role check,
\* await Poll.findById and the null check
DeletePollFind(r, c, p) ==
    /\ FirstIdle(opReq, r)
    /\ IF ~IsAdmin(c)
       THEN /\ reply' = Reply("deletePoll", c.id, p, 401, "Not authorized")
            /\ UNCHANGED opReq
       ELSE IF p \notin DOMAIN polls
       THEN /\ reply' = Reply("deletePoll", c.id, p, 404, "Poll not found")
            /\ UNCHANGED opReq
       ELSE /\ opReq' = [opReq EXCEPT ![r] = Found("deletePoll", c.id, p, None)]
            /\ UNCHANGED reply
    /\ UNCHANGED <<directoryVars, now, pollVars, workshopVars, feedbackVars, updateVars>>

\* await poll.remove() and the response: deleteOne({ _id }), which succeeds
\* whether or not the document is still stored
DeletePollRemove(r) ==
    /\ Awaits(r, "deletePoll")
    /\ polls' = Without(polls, opReq[r].target)
    /\ voteOk' = Without(voteOk, opReq[r].target)
    /\ reply' = Reply("deletePoll", opReq[r].user, opReq[r].target, 200, "Poll removed")
    /\ opReq' = [opReq EXCEPT ![r] = IdleOp]
    /\ UNCHANGED <<directoryVars, now, pollSeq, voteReq, workshopVars, feedbackVars, updateVars>>

\* PUT /api/polls/vote/:id up to its await poll.save(): findById, the checks
\* on the document read, and the changes made to the local document.
\* An optionId that is no number passes both comparisons.  When it names no
\* property of the array, poll.options[optionId] is undefined and .votes
\* throws a TypeError, which the catch answers with 500.  When it names one
\* (length, map, ...), votes += 1 is an assignment to a property of a number
\* or a function, which changes no option, and the handler goes on.
VoteBegin(r, c, p, optionId) ==
    /\ FirstIdle(voteReq, r)
    /\ IF p \notin DOMAIN polls
       THEN /\ reply' = Reply("vote", c.id, p, 404, "Poll not found")
            /\ UNCHANGED voteReq
       ELSE IF PollExpired(polls[p], now)
       THEN /\ reply' = Reply("vote", c.id, p, 400, "This poll has expired")
            /\ UNCHANGED voteReq
       ELSE IF AlreadyVoted(polls[p], c.id)
       THEN /\ reply' = Reply("vote", c.id, p, 400, "You have already voted on this poll")
            /\ UNCHANGED voteReq
       ELSE IF InvalidOption(polls[p], optionId)
       THEN /\ reply' = Reply("vote", c.id, p, 400, "Invalid option")
            /\ UNCHANGED voteReq
       ELSE IF optionId.number = None /\ optionId.key \notin ArrayProperties
       THEN /\ reply' = Reply("vote", c.id, p, 500, "Server Error")
            /\ UNCHANGED voteReq
       ELSE /\ voteReq' = [voteReq EXCEPT ![r] =
                 [pc |-> "saving", user |-> c.id, poll |-> p,
                  set |-> IF optionId.number = None
                          THEN << >>
                          ELSE << [index |-> optionId.number[1],
                                   votes |-> polls[p].options[optionId.number[1] + 1] + 1] >>]]
            /\ UNCHANGED reply
    /\ UNCHANGED <<opReq, directoryVars, now, polls, pollSeq, voteOk, workshopVars, feedbackVars, updateVars>>

\* The update poll.save() sends for the changes of the vote handler:
\* { $set: { 'options.<i>.votes': <value computed from the document read> },
\*   $push: { votedBy: <user> } }, matched on _id alone; set holds the option
\* the handler changed, if it changed one.
ApplyVote(doc, set, uid) ==
    [doc EXCEPT !.options = [ i \in DOMAIN @ |->
                                IF set # << >> /\ set[1].index + 1 = i
                                THEN set[1].votes ELSE @[i] ],
                !.votedBy = Append(@, uid)]

\* await poll.save() and the response.  A document removed since it was read
\* matches nothing: save() rejects (DocumentNotFoundError) and the catch
\* answers 500.
VoteSave(r) ==
    /\ voteReq[r].pc = "saving"
    /\ LET q == voteReq[r]
       IN IF q.poll \notin DOMAIN polls
          THEN /\ reply' = Reply("vote", q.user, q.poll, 500, "Server Error")
               /\ UNCHANGED <<polls, voteOk>>
          ELSE /\ polls' = [polls EXCEPT ![q.poll] =
                              ApplyVote(@, q.set, q.user)]
               /\ voteOk' = [voteOk EXCEPT ![q.poll] = @ + 1]
               /\ reply' = Reply("vote", q.user, q.poll, 200, "")
    /\ voteReq' = [voteReq EXCEPT ![r] = IdleVote]
    /\ UNCHANGED <<opReq, directoryVars, now, pollSeq, workshopVars, feedbackVars, updateVars>>

VotesInFlight == { r \in VoteReqIds : voteReq[r].pc # "idle" }

(***************************************************************************)
(* Workshops: src/routes/workshops.js, src/models/Workshop.js              *)
(***************************************************************************)
RegReqIds == 1..MaxRegReqs
WorkshopIdInputs == 1..MaxWorkshops

\* Numbers that need not be whole (a capacity) are kept as their number of
\* halves: Num(n) is the number n, and Num(1) + 1 the number 1.5
Num(n) == 2 * n

\* req.body.capacity: missing or not numeric (None), or a number, which
\* isNumeric() lets through when negative or fractional as well
CapacityInputs ==
    { None } \cup { Some(Num(n)) : n \in (0 - 1)..MaxCapacity } \cup { Some(Num(1) + 1) }

IdleReg == [pc |-> "idle", user |-> "", workshop |-> 0]

\* workshop.registeredUsers.includes(req.user.id)
AlreadyRegistered(doc, uid) == Includes(doc.registeredUsers, uid)

\* a capacity check that is off by one
WorkshopOverFull(doc) == Num(Len(doc.registeredUsers)) > doc.capacity

\* workshop.registeredUsers.length >= workshop.capacity
WorkshopFull(doc) == Num(Len(doc.registeredUsers)) >= doc.capacity

\* POST /api/workshops: validation (capacity must be numeric), then the role
\* check, then save; registeredUsers starts as the schema's empty array
CreateWorkshop(c, capacity) ==
    /\ workshopSeq < MaxWorkshops
    /\ IF capacity = None
       THEN /\ reply' = Reply("createWorkshop", c.id, 0, 400, "errors")
            /\ UNCHANGED <<workshops, workshopSeq>>
       ELSE IF ~IsAdmin(c)
       THEN /\ reply' = Reply("createWorkshop", c.id, 0, 401, "Not authorized")
            /\ UNCHANGED <<workshops, workshopSeq>>
       ELSE /\ workshops' = [ w \in DOMAIN workshops \cup {workshopSeq + 1} |->
                                IF w = workshopSeq + 1
                                THEN [capacity |-> capacity[1],
                                      registeredUsers |-> << >>,
                                      createdBy |-> c.id]
                                ELSE workshops[w] ]
            /\ workshopSeq' = workshopSeq + 1
            /\ reply' = Reply("createWorkshop", c.id, workshopSeq + 1, 200, "")
    /\ UNCHANGED <<opReq, directoryVars, now, regReq, pollVars, feedbackVars, updateVars>>

\* DELETE /api/workshops/:id up to its await workshop.remove(): the role
\* check, await Workshop.findById and the null check
DeleteWorkshopFind(r, c, w) ==
    /\ FirstIdle(opReq, r)
    /\ IF ~IsAdmin(c)
       THEN /\ reply' = Reply("deleteWorkshop", c.id, w, 401, "Not authorized")
            /\ UNCHANGED opReq
       ELSE IF w \notin DOMAIN workshops
       THEN /\ reply' = Reply("deleteWorkshop", c.id, w, 404, "Workshop not found")
            /\ UNCHANGED opReq
       ELSE /\ opReq' = [opReq EXCEPT ![r] = Found("deleteWorkshop", c.id, w, None)]
            /\ UNCHANGED reply
    /\ UNCHANGED <<directoryVars, now, workshopVars, pollVars, feedbackVars, updateVars>>

\* await workshop.remove() and the response; removing a document that is no
\* longer stored succeeds
DeleteWorkshopRemove(r) ==
    /\ Awaits(r, "deleteWorkshop")
    /\ workshops' = Without(workshops, opReq[r].target)
    /\ reply' = Reply("deleteWorkshop", opReq[r].user, opReq[r].target, 200,
                      "Workshop removed")
    /\ opReq' = [opReq EXCEPT ![r] = IdleOp]
    /\ UNCHANGED <<directoryVars, now, workshopSeq, regReq, pollVars, feedbackVars, updateVars>>

\* the request body's registeredUsers of PUT /api/workshops/:id
RegisteredUsersInputs == { None, Some(<< >>), Some(<<"a", "adm">>) }

\* Workshop.findByIdAndUpdate(id, { $set: req.body }, { new: true }): every
\* key of the body is set, and no schema validation runs
ApplyWorkshopSet(doc, capacity, registeredUsers) ==
    [doc EXCEPT !.capacity = capacity[1],
                !.registeredUsers = IF registeredUsers = None
                                    THEN @ ELSE registeredUsers[1]]

\* PUT /api/workshops/:id up to its second store call: validation (capacity
\* must be numeric), the role check, await Workshop.findById and the null
\* check
PutWorkshopFind(r, c, w, capacity, registeredUsers) ==
    /\ FirstIdle(opReq, r)
    /\ IF capacity = None
       THEN /\ reply' = Reply("putWorkshop", c.id, w, 400, "errors")
            /\ UNCHANGED opReq
       ELSE IF ~IsAdmin(c)
       THEN /\ reply' = Reply("putWorkshop", c.id, w, 401, "Not authorized")
            /\ UNCHANGED opReq
       ELSE IF w \notin DOMAIN workshops
       THEN /\ reply' = Reply("putWorkshop", c.id, w, 404, "Workshop not found")
            /\ UNCHANGED opReq
       ELSE /\ opReq' = [opReq EXCEPT ![r] =
                 Found("putWorkshop", c.id, w,
                       [capacity |-> capacity, registeredUsers |-> registeredUsers])]
            /\ UNCHANGED reply
    /\ UNCHANGED <<directoryVars, now, workshopVars, pollVars, feedbackVars, updateVars>>

\* await Workshop.findByIdAndUpdate(id, { $set: req.body }, { new: true }) and
\* res.json(workshop).  When the document was removed since findById the
\* update matches nothing and returns null, and res.json(null) sends status
\* 200 with the body null.
PutWorkshopUpdate(r) ==
    /\ Awaits(r, "putWorkshop")
    /\ LET q == opReq[r]
       IN IF q.target \in DOMAIN workshops
          THEN /\ workshops' = [workshops EXCEPT ![q.target] =
                    ApplyWorkshopSet(@, q.body.capacity, q.body.registeredUsers)]
               /\ reply' = Reply("putWorkshop", q.user, q.target, 200, "")
          ELSE /\ UNCHANGED workshops
               /\ reply' = Reply("putWorkshop", q.user, q.target, 200, "null")
    /\ opReq' = [opReq EXCEPT ![r] = IdleOp]
    /\ UNCHANGED <<directoryVars, now, workshopSeq, regReq, pollVars, feedbackVars, updateVars>>

\* POST /api/workshops/:id/register up to its await workshop.save(): findById
\* and the checks on the document read
RegBegin(r, c, w) ==
    /\ FirstIdle(regReq, r)
    /\ IF w \notin DOMAIN workshops
       THEN /\ reply' = Reply("register", c.id, w, 404, "Workshop not found")
            /\ UNCHANGED regReq
       ELSE IF AlreadyRegistered(workshops[w], c.id)
       THEN /\ reply' = Reply("register", c.id, w, 400, "User already registered")
            /\ UNCHANGED regReq
       ELSE IF WorkshopFull(workshops[w])
       THEN /\ reply' = Reply("register", c.id, w, 400, "Workshop is full")
            /\ UNCHANGED regReq
       ELSE /\ regReq' = [regReq EXCEPT ![r] =
                 [pc |-> "saving", user |-> c.id, workshop |-> w]]
            /\ UNCHANGED reply
    /\ UNCHANGED <<opReq, directoryVars, now, workshops, workshopSeq, pollVars,
                   feedbackVars, updateVars>>

\* The update workshop.save() sends for registeredUsers.push(id):
\* { $push: { registeredUsers: <user> } }, matched on _id alone.
ApplyRegister(doc, uid) ==
    [doc EXCEPT !.registeredUsers = Append(@, uid)]

\* await workshop.save() and the response; a document removed since it was
\* read makes save() reject, answered with 500
RegSave(r) ==
    /\ regReq[r].pc = "saving"
    /\ LET q == regReq[r]
       IN IF q.workshop \notin DOMAIN workshops
          THEN /\ reply' = Reply("register", q.user, q.workshop, 500, "Server Error")
               /\ UNCHANGED workshops
          ELSE /\ workshops' = [workshops EXCEPT ![q.workshop] =
                                  ApplyRegister(@, q.user)]
               /\ reply' = Reply("register", q.user, q.workshop, 200, "")
    /\ regReq' = [regReq EXCEPT ![r] = IdleReg]
    /\ UNCHANGED <<opReq, directoryVars, now, workshopSeq, pollVars, feedbackVars,
                   updateVars>>

RegsInFlight == { r \in RegReqIds : regReq[r].pc # "idle" }

(***************************************************************************)
(* Feedback: src/routes/feedback.js (lines 1-460), src/unnamed/part_004    *)
(***************************************************************************)
SubmitReqIds == 1..MaxSubmitReqs
DelReqIds == 1..MaxDelReqs
QuestionIdInputs == 1..MaxQuestions
ResponseIdInputs == 1..MaxResponses

IdleSubmit == [pc |-> "idle", user |-> "", question |-> 0]

IdleDel == [pc |-> "idle", user |-> "", question |-> 0, count |-> 0, isActive |-> FALSE]

SubmitsInFlight == { r \in SubmitReqIds : submitReq[r].pc # "idle" }

DelsInFlight == { d \in DelReqIds : delReq[d].pc # "idle" }

\* FeedbackResponse.find({ feedbackId }): the ids of the matching documents
ResponsesOf(rs, q) == { i \in DOMAIN rs : rs[i].feedbackId = q }

\* FeedbackResponse.findOne({ feedbackId, createdBy }): whether one matches
ExistingResponse(rs, q, uid) ==
    \E i \in DOMAIN rs : rs[i].feedbackId = q /\ rs[i].createdBy = uid

\* question.expiresAt && new Date(question.expiresAt) < new Date()
QuestionExpired(doc, t) == doc.expiresAt # None /\ doc.expiresAt[1] < t

\* a test that needs more than one response
HasSeveralResponses(n) == n > 1

\* responses.length > 0
HasResponses(n) == n > 0

\* GET /api/feedback/questions (public): the ids of the questions found by
\* { isActive: true, $or: [{ expiresAt: { $gt: now } }, { expiresAt: null }] }
ListActiveQuestions(qs, t) ==
    { q \in DOMAIN qs :
         /\ qs[q].isActive
         /\ (qs[q].expiresAt = None \/ qs[q].expiresAt[1] > t) }

\* POST /api/feedback/questions: validation, then the role check, then save;
\* isActive takes the schema default true, expiresAt is expiresAt || null
CreateQuestion(c, valid, expiresAt) ==
    /\ questionSeq < MaxQuestions
    /\ IF ~valid
       THEN /\ reply' = Reply("createQuestion", c.id, 0, 400, "errors")
            /\ UNCHANGED <<questions, questionSeq>>
       ELSE IF ~IsAdmin(c)
       THEN /\ reply' = Reply("createQuestion", c.id, 0, 401, "Not authorized")
            /\ UNCHANGED <<questions, questionSeq>>
       ELSE /\ questions' = [ q \in DOMAIN questions \cup {questionSeq + 1} |->
                                IF q = questionSeq + 1
                                THEN [isActive |-> TRUE,
                                      expiresAt |-> expiresAt,
                                      createdBy |-> c.id]
                                ELSE questions[q] ]
            /\ questionSeq' = questionSeq + 1
            /\ reply' = Reply("createQuestion", c.id, questionSeq + 1, 200, "")
    /\ UNCHANGED <<opReq, directoryVars, now, responses, responseSeq, submitReq, delReq,
                   pollVars, workshopVars, updateVars>>

\* GET /api/feedback/questions/:id, as a function of the collection
GetQuestionById(qs, q) ==
    IF q \notin DOMAIN qs
    THEN [status |-> 404, msg |-> "Feedback question not found", body |-> None]
    ELSE [status |-> 200, msg |-> "", body |-> Some(qs[q])]

\* GET /api/feedback/questions/:id (public: no caller)
GetQuestion(q) ==
    /\ reply' = Reply("getQuestion", "", q, GetQuestionById(questions, q).status,
                      GetQuestionById(questions, q).msg)
    /\ UNCHANGED <<opReq, directoryVars, now, pollVars, workshopVars, feedbackVars, updateVars>>

\* POST /api/feedback/responses up to its findOne: validation, findById of the
\* question and the checks on the question read
SubmitBegin(r, c, valid, q) ==
    /\ FirstIdle(submitReq, r)
    /\ responseSeq + Cardinality(SubmitsInFlight) < MaxResponses
    /\ IF ~valid
       THEN /\ reply' = Reply("submit", c.id, q, 400, "errors")
            /\ UNCHANGED submitReq
       ELSE IF q \notin DOMAIN questions
       THEN /\ reply' = Reply("submit", c.id, q, 404, "Feedback question not found")
            /\ UNCHANGED submitReq
       ELSE IF ~questions[q].isActive
       THEN /\ reply' = Reply("submit", c.id, q, 400,
                              "This feedback question is no longer active")
            /\ UNCHANGED submitReq
       ELSE IF QuestionExpired(questions[q], now)
       THEN /\ reply' = Reply("submit", c.id, q, 400, "This feedback question has expired")
            /\ UNCHANGED submitReq
       ELSE /\ submitReq' = [submitReq EXCEPT ![r] =
                 [pc |-> "checked", user |-> c.id, question |-> q]]
            /\ UNCHANGED reply
    /\ UNCHANGED <<opReq, directoryVars, now, questions, questionSeq, responses, responseSeq, delReq,
                   pollVars, workshopVars, updateVars>>

\* await FeedbackResponse.findOne({ feedbackId, createdBy }) and its check
SubmitFind(r) ==
    /\ submitReq[r].pc = "checked"
    /\ LET q == submitReq[r]
       IN IF ExistingResponse(responses, q.question, q.user)
          THEN /\ reply' = Reply("submit", q.user, q.question, 400,
                                 "You have already submitted feedback for this question")
               /\ submitReq' = [submitReq EXCEPT ![r] = IdleSubmit]
          ELSE /\ submitReq' = [submitReq EXCEPT ![r].pc = "saving"]
               /\ UNCHANGED reply
    /\ UNCHANGED <<opReq, directoryVars, now, questions, questionSeq, responses, responseSeq, delReq,
                   pollVars, workshopVars, updateVars>>

\* await newResponse.save(): an insert, and the response
SubmitSave(r) ==
    /\ submitReq[r].pc = "saving"
    /\ LET q == submitReq[r]
       IN /\ responses' = [ i \in DOMAIN responses \cup {responseSeq + 1} |->
                              IF i = responseSeq + 1
                              THEN [feedbackId |-> q.question, createdBy |-> q.user,
                                    status |-> "pending"]
                              ELSE responses[i] ]
          /\ reply' = Reply("submit", q.user, q.question, 200, "")
    /\ responseSeq' = responseSeq + 1
    /\ submitReq' = [submitReq EXCEPT ![r] = IdleSubmit]
    /\ UNCHANGED <<opReq, directoryVars, now, questions, questionSeq, delReq,
                   pollVars, workshopVars, updateVars>>

\* the request body's isActive of PUT /api/feedback/questions/:id
IsActiveInputs == { None, Some(TRUE), Some(FALSE) }

\* a path of a document read is modified by an assignment of a value that
\* differs from the value read; save() writes the modified paths only
Modified(read, assigned) == IF assigned = read THEN None ELSE Some(assigned)

\* PUT /api/feedback/questions/:id up to its await question.save():
\* validation, the role check, await findById, the null check and the
\* assignments to the document read; isActive is assigned when it is not
\* undefined, expiresAt when it is given
PutQuestionFind(r, c, q, valid, isActive, expiresAt) ==
    /\ FirstIdle(opReq, r)
    /\ IF ~valid
       THEN /\ reply' = Reply("putQuestion", c.id, q, 400, "errors")
            /\ UNCHANGED opReq
       ELSE IF ~IsAdmin(c)
       THEN /\ reply' = Reply("putQuestion", c.id, q, 401, "Not authorized")
            /\ UNCHANGED opReq
       ELSE IF q \notin DOMAIN questions
       THEN /\ reply' = Reply("putQuestion", c.id, q, 404, "Feedback question not found")
            /\ UNCHANGED opReq
       ELSE /\ opReq' = [opReq EXCEPT ![r] =
                 Found("putQuestion", c.id, q,
                       [isActive |-> IF isActive = None THEN None
                                     ELSE Modified(questions[q].isActive, isActive[1]),
                        expiresAt |-> IF expiresAt = None THEN None
                                      ELSE Modified(questions[q].expiresAt, expiresAt)])]
            /\ UNCHANGED reply
    /\ UNCHANGED <<directoryVars, now, pollVars, workshopVars, feedbackVars, updateVars>>

\* question.save(): { $set: <modified paths> } matched on _id
ApplyQuestionSave(doc, body) ==
    [doc EXCEPT !.isActive = IF body.isActive = None THEN @ ELSE body.isActive[1],
                !.expiresAt = IF body.expiresAt = None THEN @ ELSE body.expiresAt[1]]

\* await question.save() and the response; a document removed since it was
\* read makes save() reject (DocumentNotFoundError), answered with 500
PutQuestionSave(r) ==
    /\ Awaits(r, "putQuestion")
    /\ LET q == opReq[r]
       IN IF q.target \notin DOMAIN questions
          THEN /\ reply' = Reply("putQuestion", q.user, q.target, 500, "Server Error")
               /\ UNCHANGED questions
          ELSE /\ questions' = [questions EXCEPT ![q.target] = ApplyQuestionSave(@, q.body)]
               /\ reply' = Reply("putQuestion", q.user, q.target, 200, "")
    /\ opReq' = [opReq EXCEPT ![r] = IdleOp]
    /\ UNCHANGED <<directoryVars, now, questionSeq, responses, responseSeq, submitReq,
                   delReq, pollVars, workshopVars, updateVars>>

ResponseStatuses == {"pending", "viewed", "addressed"}
StatusInputs == {"addressed", "bogus"}

\* PUT /api/feedback/responses/:id/comment up to its await response.save():
\* validation, the role check, await findById, the null check and the
\* assignments of adminComment, status 'addressed' and updatedAt (of the
\* three the model keeps status)
CommentResponseFind(r, c, i, valid) ==
    /\ FirstIdle(opReq, r)
    /\ IF ~valid
       THEN /\ reply' = Reply("commentResponse", c.id, i, 400, "errors")
            /\ UNCHANGED opReq
       ELSE IF ~IsAdmin(c)
       THEN /\ reply' = Reply("commentResponse", c.id, i, 401, "Not authorized")
            /\ UNCHANGED opReq
       ELSE IF i \notin DOMAIN responses
       THEN /\ reply' = Reply("commentResponse", c.id, i, 404, "Feedback response not found")
            /\ UNCHANGED opReq
       ELSE /\ opReq' = [opReq EXCEPT ![r] =
                 Found("commentResponse", c.id, i,
                       [status |-> Modified(responses[i].status, "addressed")])]
            /\ UNCHANGED reply
    /\ UNCHANGED <<directoryVars, now, pollVars, workshopVars, feedbackVars, updateVars>>

\* response.save(): { $set: <modified paths> } matched on _id
ApplyResponseSave(doc, body) ==
    [doc EXCEPT !.status = IF body.status = None THEN @ ELSE body.status[1]]

\* await response.save() of a comment or status request and the response; a
\* document removed since it was read makes save() reject, answered with 500
ResponseSave(r, op) ==
    /\ Awaits(r, op)
    /\ LET q == opReq[r]
       IN IF q.target \notin DOMAIN responses
          THEN /\ reply' = Reply(op, q.user, q.target, 500, "Server Error")
               /\ UNCHANGED responses
          ELSE /\ responses' = [responses EXCEPT ![q.target] = ApplyResponseSave(@, q.body)]
               /\ reply' = Reply(op, q.user, q.target, 200, "")
    /\ opReq' = [opReq EXCEPT ![r] = IdleOp]
    /\ UNCHANGED <<directoryVars, now, questions, questionSeq, responseSeq, submitReq,
                   delReq, pollVars, workshopVars, updateVars>>

\* PUT /api/feedback/responses/:id/status up to its await response.save():
\* validation (status must be one of pending, viewed, addressed), the role
\* check, await findById, the null check and the assignments of status and
\* updatedAt
StatusResponseFind(r, c, i, status) ==
    /\ FirstIdle(opReq, r)
    /\ IF status \notin ResponseStatuses
       THEN /\ reply' = Reply("statusResponse", c.id, i, 400, "errors")
            /\ UNCHANGED opReq
       ELSE IF ~IsAdmin(c)
       THEN /\ reply' = Reply("statusResponse", c.id, i, 401, "Not authorized")
            /\ UNCHANGED opReq
       ELSE IF i \notin DOMAIN responses
       THEN /\ reply' = Reply("statusResponse", c.id, i, 404, "Feedback response not found")
            /\ UNCHANGED opReq
       ELSE /\ opReq' = [opReq EXCEPT ![r] =
                 Found("statusResponse", c.id, i,
                       [status |-> Modified(responses[i].status, status)])]
            /\ UNCHANGED reply
    /\ UNCHANGED <<directoryVars, now, pollVars, workshopVars, feedbackVars, updateVars>>

\* DELETE /api/feedback/responses/:id up to its await response.remove():
\* await findById, the null check, then the admin-or-creator check
DeleteResponseFind(r, c, i) ==
    /\ FirstIdle(opReq, r)
    /\ IF i \notin DOMAIN responses
       THEN /\ reply' = Reply("deleteResponse", c.id, i, 404, "Feedback response not found")
            /\ UNCHANGED opReq
       ELSE IF ~IsAdmin(c) /\ responses[i].createdBy # c.id
       THEN /\ reply' = Reply("deleteResponse", c.id, i, 401, "Not authorized")
            /\ UNCHANGED opReq
       ELSE /\ opReq' = [opReq EXCEPT ![r] = Found("deleteResponse", c.id, i, None)]
            /\ UNCHANGED reply
    /\ UNCHANGED <<directoryVars, now, pollVars, workshopVars, feedbackVars, updateVars>>

\* await response.remove() and the response; removing a document that is no
\* longer stored succeeds
DeleteResponseRemove(r) ==
    /\ Awaits(r, "deleteResponse")
    /\ responses' = Without(responses, opReq[r].target)
    /\ reply' = Reply("deleteResponse", opReq[r].user, opReq[r].target, 200,
                      "Feedback response removed")
    /\ opReq' = [opReq EXCEPT ![r] = IdleOp]
    /\ UNCHANGED <<directoryVars, now, questions, questionSeq, responseSeq, submitReq, delReq,
                   pollVars, workshopVars, updateVars>>

\* DELETE /api/feedback/questions/:id up to its find of the responses: the
\* role check and findById of the question
DelBegin(d, c, q) ==
    /\ FirstIdle(delReq, d)
    /\ IF ~IsAdmin(c)
       THEN /\ reply' = Reply("deleteQuestion", c.id, q, 401, "Not authorized")
            /\ UNCHANGED delReq
       ELSE IF q \notin DOMAIN questions
       THEN /\ reply' = Reply("deleteQuestion", c.id, q, 404, "Feedback question not found")
            /\ UNCHANGED delReq
       ELSE /\ delReq' = [delReq EXCEPT ![d] =
                 [pc |-> "found", user |-> c.id, question |-> q, count |-> 0,
                  isActive |-> questions[q].isActive]]
            /\ UNCHANGED reply
    /\ UNCHANGED <<opReq, directoryVars, now, questions, questionSeq, responses, responseSeq, submitReq,
                   pollVars, workshopVars, updateVars>>

\* await FeedbackResponse.find({ feedbackId: req.params.id })
DelCount(d) ==
    /\ delReq[d].pc = "found"
    /\ delReq' = [delReq EXCEPT ![d].pc = "counted",
                                ![d].count = Cardinality(ResponsesOf(responses,
                                                                     delReq[d].question))]
    /\ UNCHANGED <<opReq, directoryVars, now, reply, questions, questionSeq, responses, responseSeq, submitReq,
                   pollVars, workshopVars, updateVars>>

\* The branch on the responses found: question.isActive = false and save()
\* (which writes isActive when the assignment changed the document read, and
\* rejects when the question is no longer stored, answered with 500), or
\* question.remove()
DelFinish(d) ==
    /\ delReq[d].pc = "counted"
    /\ LET q == delReq[d].question
           u == delReq[d].user
       IN IF HasResponses(delReq[d].count)
          THEN IF q \notin DOMAIN questions
               THEN /\ reply' = Reply("deleteQuestion", u, q, 500, "Server Error")
                    /\ UNCHANGED questions
               ELSE /\ questions' = [questions EXCEPT ![q] =
                         ApplyQuestionSave(@, [isActive |-> Modified(delReq[d].isActive, FALSE),
                                               expiresAt |-> None])]
                    /\ reply' = Reply("deleteQuestion", u, q, 200,
                                      "Feedback question deactivated (has responses)")
          ELSE /\ questions' = Without(questions, q)
               /\ reply' = Reply("deleteQuestion", u, q, 200, "Feedback question removed")
    /\ delReq' = [delReq EXCEPT ![d] = IdleDel]
    /\ UNCHANGED <<opReq, directoryVars, now, questionSeq, responses, responseSeq, submitReq,
                   pollVars, workshopVars, updateVars>>

(***************************************************************************)
(* Updates: src/routes/updates.js, src/models/Update.js                    *)
(***************************************************************************)
UpdateTypes == {"news", "announcement", "blogs", "gallery", "notices", "workshop"}

UpdateIdInputs == 1..MaxUpdates
TypeInputs == {"", "blogs", "news", "bogus"}

EmptyString == << >>
HttpPrefix == <<"h", "t", "t", "p">>
HttpUrl == <<"h", "t", "t", "p", ":", "/", "/", "a">>
OtherUrl == <<"f", "t", "p", ":", "/", "/", "a">>
RedirectUrlInputs == { None, Some(EmptyString), Some(HttpUrl), Some(OtherUrl) }

\* String.prototype.startsWith
StartsWith(str, prefix) ==
    Len(str) >= Len(prefix) /\ SubSeq(str, 1, Len(prefix)) = prefix

\* !value, for a body field that is undefined or a string
Falsy(v) == v = None \/ v[1] = EmptyString

\* the validation chain of POST /api/updates: type, title and content not
\* empty; redirectUrl is validated only when present (optional()), and then
\* fails when type is blogs and it is empty
CreateBodyValid(fieldsOk, type, redirectUrl) ==
    /\ fieldsOk
    /\ type # ""
    /\ redirectUrl # None => ~(type = "blogs" /\ Falsy(redirectUrl))

\* the validation chain of PUT /api/updates/:id: as for POST, and a present,
\* non-empty redirectUrl must start with http
PutBodyValid(fieldsOk, type, redirectUrl) ==
    /\ CreateBodyValid(fieldsOk, type, redirectUrl)
    /\ redirectUrl # None =>
          ~(~Falsy(redirectUrl) /\ ~StartsWith(redirectUrl[1], HttpPrefix))

\* POST /api/updates: validation, then the role check, then save, whose
\* schema validation rejects a type outside the enum (answered with 500);
\* redirectUrl is stored only for type blogs
CreateUpdate(c, fieldsOk, type, redirectUrl) ==
    /\ updateSeq < MaxUpdates
    /\ IF ~CreateBodyValid(fieldsOk, type, redirectUrl)
       THEN /\ reply' = Reply("createUpdate", c.id, 0, 400, "errors")
            /\ UNCHANGED <<updates, updateSeq>>
       ELSE IF ~IsAdmin(c)
       THEN /\ reply' = Reply("createUpdate", c.id, 0, 403,
                              "Unauthorized: Admin access required")
            /\ UNCHANGED <<updates, updateSeq>>
       ELSE IF type \notin UpdateTypes
       THEN /\ reply' = Reply("createUpdate", c.id, 0, 500, "Server Error")
            /\ UNCHANGED <<updates, updateSeq>>
       ELSE /\ updates' = [ u \in DOMAIN updates \cup {updateSeq + 1} |->
                              IF u = updateSeq + 1
                              THEN [type |-> type,
                                    redirectUrl |-> IF type = "blogs"
                                                    THEN redirectUrl ELSE None,
                                    createdBy |-> c.id]
                              ELSE updates[u] ]
            /\ updateSeq' = updateSeq + 1
            /\ reply' = Reply("createUpdate", c.id, updateSeq + 1, 200, "")
    /\ UNCHANGED <<opReq, directoryVars, now, pollVars, workshopVars, feedbackVars>>

\* if (req.body.type !== 'blogs') req.body.redirectUrl = undefined
PutBody(type, redirectUrl) ==
    [type |-> type, redirectUrl |-> IF type # "blogs" THEN None ELSE redirectUrl]

\* Update.findByIdAndUpdate(id, { $set: body }, { new: true }): Mongoose 6
\* strips the keys of an update whose value is undefined, so an undefined
\* redirectUrl leaves the stored field as it is; no schema validation runs
ApplySet(doc, body) ==
    [doc EXCEPT !.type = body.type,
                !.redirectUrl = IF body.redirectUrl = None THEN @ ELSE body.redirectUrl]

\* a PUT handler that writes the body before its blogs check
PutUpdateWriteFirst(r, c, u, fieldsOk, type, redirectUrl) ==
    /\ FirstIdle(opReq, r)
    /\ IF ~PutBodyValid(fieldsOk, type, redirectUrl)
       THEN /\ reply' = Reply("putUpdate", c.id, u, 400, "errors")
            /\ UNCHANGED <<opReq, updates>>
       ELSE IF ~IsAdmin(c)
       THEN /\ reply' = Reply("putUpdate", c.id, u, 401, "Not authorized")
            /\ UNCHANGED <<opReq, updates>>
       ELSE IF u \notin DOMAIN updates
       THEN /\ reply' = Reply("putUpdate", c.id, u, 404, "Update not found")
            /\ UNCHANGED <<opReq, updates>>
       ELSE IF type = "blogs" /\ Falsy(redirectUrl)
       THEN /\ updates' = [updates EXCEPT ![u] = ApplySet(@, PutBody(type, redirectUrl))]
            /\ reply' = Reply("putUpdate", c.id, u, 400,
                              "Redirect URL is required for blog posts")
            /\ UNCHANGED opReq
       ELSE /\ opReq' = [opReq EXCEPT ![r] =
                 Found("putUpdate", c.id, u, PutBody(type, redirectUrl))]
            /\ UNCHANGED <<reply, updates>>
    /\ UNCHANGED <<directoryVars, now, updateSeq, pollVars, workshopVars, feedbackVars>>

\* PUT /api/updates/:id up to its second store call: validation, the role
\* check, await Update.findById, the null check, the blogs check and the
\* clearing of redirectUrl
PutUpdateFind(r, c, u, fieldsOk, type, redirectUrl) ==
    /\ FirstIdle(opReq, r)
    /\ IF ~PutBodyValid(fieldsOk, type, redirectUrl)
       THEN /\ reply' = Reply("putUpdate", c.id, u, 400, "errors")
            /\ UNCHANGED <<opReq, updates>>
       ELSE IF ~IsAdmin(c)
       THEN /\ reply' = Reply("putUpdate", c.id, u, 401, "Not authorized")
            /\ UNCHANGED <<opReq, updates>>
       ELSE IF u \notin DOMAIN updates
       THEN /\ reply' = Reply("putUpdate", c.id, u, 404, "Update not found")
            /\ UNCHANGED <<opReq, updates>>
       ELSE IF type = "blogs" /\ Falsy(redirectUrl)
       THEN /\ reply' = Reply("putUpdate", c.id, u, 400,
                              "Redirect URL is required for blog posts")
            /\ UNCHANGED <<opReq, updates>>
       ELSE /\ opReq' = [opReq EXCEPT ![r] =
                 Found("putUpdate", c.id, u, PutBody(type, redirectUrl))]
            /\ UNCHANGED <<reply, updates>>
    /\ UNCHANGED <<directoryVars, now, updateSeq, pollVars, workshopVars, feedbackVars>>

\* await Update.findByIdAndUpdate(id, { $set: req.body }, { new: true }) and
\* res.json(update); the update of a document removed since findById matches
\* nothing and returns null, sent as status 200 with the body null
PutUpdateUpdate(r) ==
    /\ Awaits(r, "putUpdate")
    /\ LET q == opReq[r]
       IN IF q.target \in DOMAIN updates
          THEN /\ updates' = [updates EXCEPT ![q.target] = ApplySet(@, q.body)]
               /\ reply' = Reply("putUpdate", q.user, q.target, 200, "")
          ELSE /\ UNCHANGED updates
               /\ reply' = Reply("putUpdate", q.user, q.target, 200, "null")
    /\ opReq' = [opReq EXCEPT ![r] = IdleOp]
    /\ UNCHANGED <<directoryVars, now, updateSeq, pollVars, workshopVars, feedbackVars>>

\* DELETE /api/updates/:id up to its await update.remove(): the role check,
\* await Update.findById and the null check
DeleteUpdateFind(r, c, u) ==
    /\ FirstIdle(opReq, r)
    /\ IF ~IsAdmin(c)
       THEN /\ reply' = Reply("deleteUpdate", c.id, u, 401, "Not authorized")
            /\ UNCHANGED opReq
       ELSE IF u \notin DOMAIN updates
       THEN /\ reply' = Reply("deleteUpdate", c.id, u, 404, "Update not found")
            /\ UNCHANGED opReq
       ELSE /\ opReq' = [opReq EXCEPT ![r] = Found("deleteUpdate", c.id, u, None)]
            /\ UNCHANGED reply
    /\ UNCHANGED <<directoryVars, now, updateVars, pollVars, workshopVars, feedbackVars>>

\* await update.remove() and the response; removing a document that is no
\* longer stored succeeds
DeleteUpdateRemove(r) ==
    /\ Awaits(r, "deleteUpdate")
    /\ updates' = Without(updates, opReq[r].target)
    /\ reply' = Reply("deleteUpdate", opReq[r].user, opReq[r].target, 200, "Update removed")
    /\ opReq' = [opReq EXCEPT ![r] = IdleOp]
    /\ UNCHANGED <<directoryVars, now, updateSeq, pollVars, workshopVars, feedbackVars>>

(***************************************************************************)
(* Industries: src/routes/industries.js, IndustrySchema                    *)
(*                                                                         *)
(* Of an industry's fields the model keeps owner and description; the      *)
(* request body of a PUT is the pair of these two fields, each optional.   *)
(* multipart says whether the request is multipart/form-data: multer's     *)
(* upload.array sets req.files only for such a request.                    *)
(***************************************************************************)
IndustryIdInputs == 1..MaxIndustries
OwnerInputs == { None } \cup { Some(c.id) : c \in Callers }
DescriptionInputs == { None, Some("d1") }

\* industry.owner.toString() !== req.user.id && req.user.role !== 'admin'
NotOwnerNorAdmin(doc, c) == doc.owner # c.id /\ ~IsAdmin(c)

\* POST /api/industries: validation, then uploadImagesToCloudinary(req.files),
\* which throws on the undefined req.files of a request that is not
\* multipart, then save with owner: req.user.id
CreateIndustry(c, multipart, valid) ==
    /\ industrySeq < MaxIndustries
    /\ IF ~valid
       THEN /\ reply' = Reply("createIndustry", c.id, 0, 400, "errors")
            /\ UNCHANGED <<industries, industrySeq>>
       ELSE IF ~multipart
       THEN /\ reply' = Reply("createIndustry", c.id, 0, 500, "Server Error")
            /\ UNCHANGED <<industries, industrySeq>>
       ELSE /\ industries' = [ i \in DOMAIN industries \cup {industrySeq + 1} |->
                                 IF i = industrySeq + 1
                                 THEN [owner |-> c.id, description |-> "d0"]
                                 ELSE industries[i] ]
            /\ industrySeq' = industrySeq + 1
            /\ reply' = Reply("createIndustry", c.id, industrySeq + 1, 200, "")
    /\ UNCHANGED <<opReq, now, contactVars, userVars, pollVars, workshopVars,
                   feedbackVars, updateVars>>

\* Industry.findByIdAndUpdate(id, { $set: updates }, { new: true }): the
\* keys of the body that are present are set, undefined ones are dropped
ApplyIndustrySet(doc, description, owner) ==
    [doc EXCEPT !.description = IF description = None THEN @ ELSE description[1],
                !.owner = IF owner = None THEN @ ELSE owner[1]]

\* PUT /api/industries/:id up to its second store call: await findById, the
\* null check, the owner-or-admin check, then req.files.length, which throws
\* when req.files is undefined (the request carries no files to upload)
PutIndustryFind(r, c, i, multipart, description, owner) ==
    /\ FirstIdle(opReq, r)
    /\ IF i \notin DOMAIN industries
       THEN /\ reply' = Reply("putIndustry", c.id, i, 404, "Industry not found")
            /\ UNCHANGED opReq
       ELSE IF NotOwnerNorAdmin(industries[i], c)
       THEN /\ reply' = Reply("putIndustry", c.id, i, 401, "Not authorized")
            /\ UNCHANGED opReq
       ELSE IF ~multipart
       THEN /\ reply' = Reply("putIndustry", c.id, i, 500, "Server Error")
            /\ UNCHANGED opReq
       ELSE /\ opReq' = [opReq EXCEPT ![r] =
                 Found("putIndustry", c.id, i,
                       [description |-> description, owner |-> owner])]
            /\ UNCHANGED reply
    /\ UNCHANGED <<now, industryVars, contactVars, userVars, pollVars, workshopVars,
                   feedbackVars, updateVars>>

\* await Industry.findByIdAndUpdate(id, { $set: updates }, { new: true }) and
\* res.json(industry); the update of a document removed since findById
\* matches nothing and returns null, sent as status 200 with the body null
PutIndustryUpdate(r) ==
    /\ Awaits(r, "putIndustry")
    /\ LET q == opReq[r]
       IN IF q.target \in DOMAIN industries
          THEN /\ industries' = [industries EXCEPT ![q.target] =
                    ApplyIndustrySet(@, q.body.description, q.body.owner)]
               /\ reply' = Reply("putIndustry", q.user, q.target, 200, "")
          ELSE /\ UNCHANGED industries
               /\ reply' = Reply("putIndustry", q.user, q.target, 200, "null")
    /\ opReq' = [opReq EXCEPT ![r] = IdleOp]
    /\ UNCHANGED <<now, industrySeq, contactVars, userVars, pollVars, workshopVars,
                   feedbackVars, updateVars>>

\* DELETE /api/industries/:id up to its await industry.remove(): await
\* findById, the null check, then the owner-or-admin check
DeleteIndustryFind(r, c, i) ==
    /\ FirstIdle(opReq, r)
    /\ IF i \notin DOMAIN industries
       THEN /\ reply' = Reply("deleteIndustry", c.id, i, 404, "Industry not found")
            /\ UNCHANGED opReq
       ELSE IF NotOwnerNorAdmin(industries[i], c)
       THEN /\ reply' = Reply("deleteIndustry", c.id, i, 401, "Not authorized")
            /\ UNCHANGED opReq
       ELSE /\ opReq' = [opReq EXCEPT ![r] = Found("deleteIndustry", c.id, i, None)]
            /\ UNCHANGED reply
    /\ UNCHANGED <<now, industryVars, contactVars, userVars, pollVars, workshopVars,
                   feedbackVars, updateVars>>

\* await industry.remove() and the response; removing a document that is no
\* longer stored succeeds
DeleteIndustryRemove(r) ==
    /\ Awaits(r, "deleteIndustry")
    /\ industries' = Without(industries, opReq[r].target)
    /\ reply' = Reply("deleteIndustry", opReq[r].user, opReq[r].target, 200,
                      "Industry removed")
    /\ opReq' = [opReq EXCEPT ![r] = IdleOp]
    /\ UNCHANGED <<now, industrySeq, contactVars, userVars, pollVars, workshopVars,
                   feedbackVars, updateVars>>

\* a lookup that answers 200 whether or not the document is stored
GetIndustryFound(coll, i) ==
    [status |-> 200, msg |-> "",
     body |-> IF i \in DOMAIN coll THEN Some(coll[i]) ELSE None]

\* GET /api/industries/:id, as a function of the collection
GetIndustryById(coll, i) ==
    IF i \notin DOMAIN coll
    THEN [status |-> 404, msg |-> "Industry not found", body |-> None]
    ELSE [status |-> 200, msg |-> "", body |-> Some(coll[i])]

\* GET /api/industries/:id (public: no caller)
GetIndustry(i) ==
    /\ reply' = Reply("getIndustry", "", i, GetIndustryById(industries, i).status,
                      GetIndustryById(industries, i).msg)
    /\ UNCHANGED <<opReq, now, industryVars, contactVars, userVars, pollVars, workshopVars,
                   feedbackVars, updateVars>>

(***************************************************************************)
(* The list routes: GET / of the industries, updates, emergency, polls and *)
(* workshops routers.  A request carries a token or none; of a list        *)
(* response the model keeps the status.                                    *)
(***************************************************************************)
TokenInputs == {None} \cup { Some(c) : c \in Callers }

\* the auth middleware lets a request through when it carries a valid token
Authenticated(token) == token # None

\* the auth middleware's answer to a request without a valid token
Unauthenticated(op) == Reply(op, "", 0, 401, "Unauthenticated")

\* the caller a request's token stands for ("" without a token)
TokenUser(token) == IF token = None THEN "" ELSE token[1].id

\* GET /api/industries (no middleware)
GetIndustries(token) ==
    /\ reply' = Reply("getIndustries", TokenUser(token), 0, 200, "")
    /\ UNCHANGED <<opReq, now, directoryVars, pollVars, workshopVars, feedbackVars, updateVars>>

\* GET /api/updates (no middleware)
GetUpdates(token) ==
    /\ reply' = Reply("getUpdates", TokenUser(token), 0, 200, "")
    /\ UNCHANGED <<opReq, now, directoryVars, pollVars, workshopVars, feedbackVars, updateVars>>

\* GET /api/emergency (no middleware)
GetContacts(token) ==
    /\ reply' = Reply("getContacts", TokenUser(token), 0, 200, "")
    /\ UNCHANGED <<opReq, now, directoryVars, pollVars, workshopVars, feedbackVars, updateVars>>

\* GET /api/workshops (no middleware)
GetWorkshops(token) ==
    /\ reply' = Reply("getWorkshops", TokenUser(token), 0, 200, "")
    /\ UNCHANGED <<opReq, now, directoryVars, pollVars, workshopVars, feedbackVars, updateVars>>

\* res.status(200).json(list): a response whose body is a list of documents,
\* kept as the set of their ids
ListReply(op, user, body) ==
    [op |-> op, user |-> user, target |-> 0, status |-> 200, msg |-> "", body |-> body]

\* a listing that filters nothing
ListAllPolls(coll, uid, t) == DOMAIN coll

\* Poll.find({ expiresAt: { $gte: now }, votedBy: { $ne: req.user.id } })
ListPolls(coll, uid, t) ==
    { p \in DOMAIN coll : coll[p].expiresAt >= t /\ ~Includes(coll[p].votedBy, uid) }

\* Poll.find()
ListPollsAdmin(coll) == DOMAIN coll

\* GET /api/polls (behind auth)
GetPolls(token) ==
    /\ reply' = IF ~Authenticated(token)
                THEN Unauthenticated("getPolls")
                ELSE ListReply("getPolls", TokenUser(token),
                               ListPolls(polls, TokenUser(token), now))
    /\ UNCHANGED <<opReq, now, directoryVars, pollVars, workshopVars, feedbackVars, updateVars>>

\* GET /api/polls/admin (behind auth; the handler has no role check)
GetPollsAdmin(token) ==
    /\ reply' = IF ~Authenticated(token)
                THEN Unauthenticated("getPollsAdmin")
                ELSE ListReply("getPollsAdmin", TokenUser(token), ListPollsAdmin(polls))
    /\ UNCHANGED <<opReq, now, directoryVars, pollVars, workshopVars, feedbackVars, updateVars>>

(***************************************************************************)
(* Emergency contacts: the emergency router in src/routes/polls.js,        *)
(* EmergencyContactSchema.  Of a contact's fields the model keeps category.*)
(***************************************************************************)
ContactCategories == {"Fire", "Police", "Ambulance", "Electrician", "Plumber", "Other"}

ContactIdInputs == 1..MaxContacts
CategoryInputs == {"Fire", "Other", "bogus"}

\* POST /api/emergency: validation, then the role check, then save, whose
\* schema validation rejects a category outside the enum (answered with 500)
CreateContact(c, valid, category) ==
    /\ contactSeq < MaxContacts
    /\ IF ~valid
       THEN /\ reply' = Reply("createContact", c.id, 0, 400, "errors")
            /\ UNCHANGED <<contacts, contactSeq>>
       ELSE IF ~IsAdmin(c)
       THEN /\ reply' = Reply("createContact", c.id, 0, 401, "Not authorized")
            /\ UNCHANGED <<contacts, contactSeq>>
       ELSE IF category \notin ContactCategories
       THEN /\ reply' = Reply("createContact", c.id, 0, 500, "Server Error")
            /\ UNCHANGED <<contacts, contactSeq>>
       ELSE /\ contacts' = [ k \in DOMAIN contacts \cup {contactSeq + 1} |->
                               IF k = contactSeq + 1
                               THEN [category |-> category]
                               ELSE contacts[k] ]
            /\ contactSeq' = contactSeq + 1
            /\ reply' = Reply("createContact", c.id, contactSeq + 1, 200, "")
    /\ UNCHANGED <<opReq, now, industryVars, userVars, pollVars, workshopVars,
                   feedbackVars, updateVars>>

\* PUT /api/emergency/:id up to its second store call: validation, the role
\* check, await EmergencyContact.findById and the null check
PutContactFind(r, c, k, valid, category) ==
    /\ FirstIdle(opReq, r)
    /\ IF ~valid
       THEN /\ reply' = Reply("putContact", c.id, k, 400, "errors")
            /\ UNCHANGED opReq
       ELSE IF ~IsAdmin(c)
       THEN /\ reply' = Reply("putContact", c.id, k, 401, "Not authorized")
            /\ UNCHANGED opReq
       ELSE IF k \notin DOMAIN contacts
       THEN /\ reply' = Reply("putContact", c.id, k, 404, "Emergency contact not found")
            /\ UNCHANGED opReq
       ELSE /\ opReq' = [opReq EXCEPT ![r] =
                 Found("putContact", c.id, k, [category |-> category])]
            /\ UNCHANGED reply
    /\ UNCHANGED <<now, contactVars, industryVars, userVars, pollVars, workshopVars,
                   feedbackVars, updateVars>>

\* await EmergencyContact.findByIdAndUpdate(id, { $set: req.body }, { new:
\* true }), which runs no schema validation, and res.json(contact); the update
\* of a document removed since findById matches nothing and returns null,
\* sent as status 200 with the body null
PutContactUpdate(r) ==
    /\ Awaits(r, "putContact")
    /\ LET q == opReq[r]
       IN IF q.target \in DOMAIN contacts
          THEN /\ contacts' = [contacts EXCEPT ![q.target].category = q.body.category]
               /\ reply' = Reply("putContact", q.user, q.target, 200, "")
          ELSE /\ UNCHANGED contacts
               /\ reply' = Reply("putContact", q.user, q.target, 200, "null")
    /\ opReq' = [opReq EXCEPT ![r] = IdleOp]
    /\ UNCHANGED <<now, contactSeq, industryVars, userVars, pollVars, workshopVars,
                   feedbackVars, updateVars>>

\* DELETE /api/emergency/:id up to its await contact.remove(): the role
\* check, await EmergencyContact.findById and the null check
DeleteContactFind(r, c, k) ==
    /\ FirstIdle(opReq, r)
    /\ IF ~IsAdmin(c)
       THEN /\ reply' = Reply("deleteContact", c.id, k, 401, "Not authorized")
            /\ UNCHANGED opReq
       ELSE IF k \notin DOMAIN contacts
       THEN /\ reply' = Reply("deleteContact", c.id, k, 404, "Emergency contact not found")
            /\ UNCHANGED opReq
       ELSE /\ opReq' = [opReq EXCEPT ![r] = Found("deleteContact", c.id, k, None)]
            /\ UNCHANGED reply
    /\ UNCHANGED <<now, contactVars, industryVars, userVars, pollVars, workshopVars,
                   feedbackVars, updateVars>>

\* await contact.remove() and the response; removing a document that is no
\* longer stored succeeds
DeleteContactRemove(r) ==
    /\ Awaits(r, "deleteContact")
    /\ contacts' = Without(contacts, opReq[r].target)
    /\ reply' = Reply("deleteContact", opReq[r].user, opReq[r].target, 200,
                      "Emergency contact removed")
    /\ opReq' = [opReq EXCEPT ![r] = IdleOp]
    /\ UNCHANGED <<now, contactSeq, industryVars, userVars, pollVars, workshopVars,
                   feedbackVars, updateVars>>

(***************************************************************************)
(* Users: the auth router in src/routes/feedback.js, UserSchema.           *)
(*                                                                         *)
(* Time is counted in months here.  Of a user's fields the model keeps     *)
(* email, password (the stored hash), role, status and expiryDate; the     *)
(* usernames of the requests are taken to be distinct.                     *)
(***************************************************************************)
ExpiryMonths == 3

UserIdInputs == 1..MaxUsers
EmailInputs == {"e1", "e2"}
RegisterPasswordInputs == {"secret1"}
LoginPasswordInputs == {"secret1", "wrong1"}

\* bcrypt.hash(password, salt)
Hash(password) == <<"bcrypt", password>>

\* User.findOne({ email }): the ids of the users with this email
UsersByEmail(us, email) == { u \in DOMAIN us : us[u].email = email }

\* new User({ ..., role }) with the schema defaults: status 'active' and
\* expiryDate three months from now
NewUser(email, password, role, t) ==
    [email |-> email, password |-> password, role |-> role,
     status |-> "active", expiryDate |-> t + ExpiryMonths]

\* a password comparison that accepts every password
CompareAny(password, hash) == hash \in { Hash(p) : p \in LoginPasswordInputs }

\* bcrypt.compare(password, hash)
Compare(password, hash) == hash = Hash(password)

\* The first pre('save') hook, which user.save() runs before it writes: it
\* reads the clock, t, and sets status to 'inactive' when expiryDate has
\* passed
SaveUser(doc, t) ==
    [doc EXCEPT !.status = IF doc.expiryDate < t THEN "inactive" ELSE @]

\* the hooks of user.save() on a new user: the hook above, and the second
\* hook hashes the password
SaveNewUser(doc, t) == [SaveUser(doc, t) EXCEPT !.password = Hash(@)]

\* the registrations between their findOne and their save
RegistrationsInFlight ==
    { r \in OpReqIds : opReq[r].pc = "found" /\ opReq[r].op \in {"registerUser", "Adminregister"} }

\* POST /api/auth/register (behind auth) up to its await user.save():
\* validation, the role check, await User.findOne({ email }), its check,
\* new User(...) with the default role member and the schema defaults, and
\* the hooks that user.save() runs on it before it writes; at is the time
\* save() was called
RegisterFind(r, c, valid, email, password) ==
    /\ FirstIdle(opReq, r)
    /\ (valid /\ IsAdmin(c) /\ UsersByEmail(users, email) = {})
          => userSeq + Cardinality(RegistrationsInFlight) < MaxUsers
    /\ IF ~valid
       THEN /\ reply' = Reply("registerUser", c.id, 0, 400, "errors")
            /\ UNCHANGED opReq
       ELSE IF ~IsAdmin(c)
       THEN /\ reply' = Reply("registerUser", c.id, 0, 403, "Access denied. Admins only.")
            /\ UNCHANGED opReq
       ELSE IF UsersByEmail(users, email) # {}
       THEN /\ reply' = Reply("registerUser", c.id, 0, 400, "User already exists")
            /\ UNCHANGED opReq
       ELSE /\ opReq' = [opReq EXCEPT ![r] =
                 Found("registerUser", c.id, 0,
                       [at |-> now,
                        doc |-> SaveNewUser(NewUser(email, password, "member", now), now)])]
            /\ UNCHANGED reply
    /\ UNCHANGED <<now, userVars, industryVars, contactVars, pollVars, workshopVars,
                   feedbackVars, updateVars>>

\* the insert of user.save() of a new user
InsertUser(us, id, doc) ==
    [ u \in DOMAIN us \cup {id} |-> IF u = id THEN doc ELSE us[u] ]

\* The write of await user.save() of POST /api/auth/register and the
\* response; no token is issued.  The unique index on email rejects the
\* insert (E11000) when a user with this email has been stored since findOne,
\* answered with 500.
RegisterSave(r) ==
    /\ Awaits(r, "registerUser")
    /\ LET q == opReq[r]
       IN IF UsersByEmail(users, q.body.doc.email) # {}
          THEN /\ reply' = Reply("registerUser", q.user, 0, 500, "Server error")
               /\ UNCHANGED <<users, userSeq>>
          ELSE /\ users' = InsertUser(users, userSeq + 1, q.body.doc)
               /\ userSeq' = userSeq + 1
               /\ reply' = Reply("registerUser", q.user, userSeq + 1, 201,
                                 "User registered successfully")
    /\ opReq' = [opReq EXCEPT ![r] = IdleOp]
    /\ UNCHANGED <<now, tokens, industryVars, contactVars, pollVars, workshopVars,
                   feedbackVars, updateVars>>

\* POST /api/auth/Adminregister (no auth middleware: no caller) up to its
\* await user.save(): validation, await User.findOne({ email }), its check,
\* new User(...) with role admin, and the hooks that user.save() runs on it
\* before it writes
AdminRegisterFind(r, valid, email, password) ==
    /\ FirstIdle(opReq, r)
    /\ (valid /\ UsersByEmail(users, email) = {})
          => userSeq + Cardinality(RegistrationsInFlight) < MaxUsers
    /\ IF ~valid
       THEN /\ reply' = Reply("Adminregister", "", 0, 400, "errors")
            /\ UNCHANGED opReq
       ELSE IF UsersByEmail(users, email) # {}
       THEN /\ reply' = Reply("Adminregister", "", 0, 400, "User already exists")
            /\ UNCHANGED opReq
       ELSE /\ opReq' = [opReq EXCEPT ![r] =
                 Found("Adminregister", "", 0,
                       [at |-> now,
                        doc |-> SaveNewUser(NewUser(email, password, "admin", now), now)])]
            /\ UNCHANGED reply
    /\ UNCHANGED <<now, userVars, industryVars, contactVars, pollVars, workshopVars,
                   feedbackVars, updateVars>>

\* The write of await user.save() of POST /api/auth/Adminregister (rejected
\* as above on a duplicate email), then a token with the new user's id and
\* role
AdminRegisterSave(r) ==
    /\ Awaits(r, "Adminregister")
    /\ LET q == opReq[r]
       IN IF UsersByEmail(users, q.body.doc.email) # {}
          THEN /\ reply' = Reply("Adminregister", "", 0, 500, "Server error")
               /\ UNCHANGED <<users, userSeq, tokens>>
          ELSE /\ users' = InsertUser(users, userSeq + 1, q.body.doc)
               /\ userSeq' = userSeq + 1
               /\ tokens' = tokens \cup { [id |-> userSeq + 1, role |-> "admin"] }
               /\ reply' = Reply("Adminregister", "", userSeq + 1, 200, "token")
    /\ opReq' = [opReq EXCEPT ![r] = IdleOp]
    /\ UNCHANGED <<now, industryVars, contactVars, pollVars, workshopVars,
                   feedbackVars, updateVars>>

\* the months of the body of PUT /api/auth/users/:id/reactivate: missing, or a
\* number
MonthsInputs == { None, Some(0 - 1), Some(0), Some(1) }

\* `User reactivated for ${months} months.`
ReactivatedMsg(months) ==
    CASE months = 0 - 1 -> "User reactivated for -1 months."
      [] months = 0 -> "User reactivated for 0 months."
      [] OTHER -> "User reactivated for 1 months."

\* The paths user.save() writes of status and expiryDate: those on which the
\* handler's assignments changed the document read, and status when the
\* pre('save') hook changed it.
ModifiedPaths(read, local, saved) ==
    { p \in {"status", "expiryDate"} : read[p] # local[p] }
       \cup { p \in {"status"} : saved[p] # local[p] }

\* the write of user.save() of a stored user: { $set: <modified paths> } of
\* the document the handler holds, matched on _id
ApplyUserSave(stored, saved, paths) ==
    [stored EXCEPT !.status = IF "status" \in paths THEN saved.status ELSE @,
                   !.expiryDate = IF "expiryDate" \in paths THEN saved.expiryDate ELSE @]

\* PUT /api/auth/users/:id/reactivate (behind auth) up to the write of its
\* await user.save(): the role check, await User.findById, the null check,
\* then status = 'active' and expiryDate = now + months, and what
\* user.save() runs on the document the handler holds before it writes: the
\* validation, then the pre('save') hook.  Without months the sum is NaN and
\* the date invalid: the validation fails before the hook, and the request
\* is answered with 500 here.  at is the time the handler read the clock for
\* expiryDate; the hook reads the clock again, at h, and the clock may have
\* moved on between the two reads.
ReactivateFind(r, c, u, months, h) ==
    /\ FirstIdle(opReq, r)
    /\ h \in now..(now + 1)
    /\ IF ~IsAdmin(c)
       THEN /\ reply' = Reply("reactivate", c.id, u, 403, "Access denied. Admins only.")
            /\ UNCHANGED <<opReq, now>>
       ELSE IF u \notin DOMAIN users
       THEN /\ reply' = Reply("reactivate", c.id, u, 404, "User not found")
            /\ UNCHANGED <<opReq, now>>
       ELSE IF months = None
       THEN /\ reply' = Reply("reactivate", c.id, u, 500, "Server error")
            /\ UNCHANGED <<opReq, now>>
       ELSE LET local == [users[u] EXCEPT !.status = "active",
                                          !.expiryDate = now + months[1]]
                saved == SaveUser(local, h)
            IN /\ opReq' = [opReq EXCEPT ![r] =
                     Found("reactivate", c.id, u,
                           [months |-> months[1], at |-> now, doc |-> saved,
                            paths |-> ModifiedPaths(users[u], local, saved)])]
               /\ now' = h
               /\ UNCHANGED reply
    /\ UNCHANGED <<userVars, industryVars, contactVars, pollVars, workshopVars,
                   feedbackVars, updateVars>>

\* The write of await user.save() of the reactivate handler and the
\* response.  A document removed since it was read makes save() reject,
\* answered with 500.
ReactivateSave(r) ==
    /\ Awaits(r, "reactivate")
    /\ LET q == opReq[r]
       IN IF q.target \notin DOMAIN users
          THEN /\ reply' = Reply("reactivate", q.user, q.target, 500, "Server error")
               /\ UNCHANGED users
          ELSE /\ users' = [users EXCEPT ![q.target] =
                    ApplyUserSave(@, q.body.doc, q.body.paths)]
               /\ reply' = Reply("reactivate", q.user, q.target, 200,
                                 ReactivatedMsg(q.body.months))
    /\ opReq' = [opReq EXCEPT ![r] = IdleOp]
    /\ UNCHANGED <<now, userSeq, tokens, industryVars, contactVars, pollVars,
                   workshopVars, feedbackVars, updateVars>>

\* PUT /api/auth/users/:id/toggle-status (behind auth) up to its await
\* user.save(): the role check, await User.findById, the null check, then
\* the status of the document read is flipped, and the pre('save') hook runs
\* on the document the handler holds
ToggleStatusFind(r, c, u) ==
    /\ FirstIdle(opReq, r)
    /\ IF ~IsAdmin(c)
       THEN /\ reply' = Reply("toggleStatus", c.id, u, 403, "Access denied. Admins only.")
            /\ UNCHANGED opReq
       ELSE IF u \notin DOMAIN users
       THEN /\ reply' = Reply("toggleStatus", c.id, u, 404, "User not found")
            /\ UNCHANGED opReq
       ELSE LET local == [users[u] EXCEPT
                             !.status = IF @ = "active" THEN "inactive" ELSE "active"]
                saved == SaveUser(local, now)
            IN /\ opReq' = [opReq EXCEPT ![r] =
                     Found("toggleStatus", c.id, u,
                           [at |-> now, doc |-> saved,
                            paths |-> ModifiedPaths(users[u], local, saved)])]
               /\ UNCHANGED reply
    /\ UNCHANGED <<now, userVars, industryVars, contactVars, pollVars, workshopVars,
                   feedbackVars, updateVars>>

\* The write of await user.save() of the toggle-status handler and the
\* response, whose message names the status of the document the handler
\* holds; a document removed since it was read makes save() reject, answered
\* with 500
ToggleStatusSave(r) ==
    /\ Awaits(r, "toggleStatus")
    /\ LET q == opReq[r]
       IN IF q.target \notin DOMAIN users
          THEN /\ reply' = Reply("toggleStatus", q.user, q.target, 500, "Server error")
               /\ UNCHANGED users
          ELSE /\ users' = [users EXCEPT ![q.target] =
                    ApplyUserSave(@, q.body.doc, q.body.paths)]
               /\ reply' = Reply("toggleStatus", q.user, q.target, 200,
                                 IF q.body.doc.status = "active"
                                 THEN "User status changed to active."
                                 ELSE "User status changed to inactive.")
    /\ opReq' = [opReq EXCEPT ![r] = IdleOp]
    /\ UNCHANGED <<now, userSeq, tokens, industryVars, contactVars, pollVars,
                   workshopVars, feedbackVars, updateVars>>

\* DELETE /api/auth/users/:id (behind auth) up to its await user.remove():
\* the role check, await User.findById and the null check
DeleteUserFind(r, c, u) ==
    /\ FirstIdle(opReq, r)
    /\ IF ~IsAdmin(c)
       THEN /\ reply' = Reply("deleteUser", c.id, u, 403, "Access denied. Admins only.")
            /\ UNCHANGED opReq
       ELSE IF u \notin DOMAIN users
       THEN /\ reply' = Reply("deleteUser", c.id, u, 404, "User not found")
            /\ UNCHANGED opReq
       ELSE /\ opReq' = [opReq EXCEPT ![r] = Found("deleteUser", c.id, u, None)]
            /\ UNCHANGED reply
    /\ UNCHANGED <<now, userVars, industryVars, contactVars, pollVars, workshopVars,
                   feedbackVars, updateVars>>

\* await user.remove() and the response; removing a document that is no
\* longer stored succeeds
DeleteUserRemove(r) ==
    /\ Awaits(r, "deleteUser")
    /\ users' = Without(users, opReq[r].target)
    /\ reply' = Reply("deleteUser", opReq[r].user, opReq[r].target, 200, "User deleted")
    /\ opReq' = [opReq EXCEPT ![r] = IdleOp]
    /\ UNCHANGED <<now, userSeq, tokens, industryVars, contactVars, pollVars,
                   workshopVars, feedbackVars, updateVars>>

\* POST /api/auth/login (no caller) up to its await bcrypt.compare:
\* validation, await User.findOne({ email }), its check and the check of the
\* status of the document read
LoginFind(r, valid, email, password) ==
    /\ FirstIdle(opReq, r)
    /\ IF ~valid
       THEN /\ reply' = Reply("login", "", 0, 400, "errors")
            /\ UNCHANGED opReq
       ELSE IF UsersByEmail(users, email) = {}
       THEN /\ reply' = Reply("login", "", 0, 400, "Invalid Credentials")
            /\ UNCHANGED opReq
       ELSE LET u == CHOOSE x \in UsersByEmail(users, email) : TRUE
            IN IF users[u].status # "active"
               THEN /\ reply' = Reply("login", "", u, 403,
                       "Account is inactive. Please contact an administrator.")
                    /\ UNCHANGED opReq
               ELSE /\ opReq' = [opReq EXCEPT ![r] =
                         Found("login", "", u, [password |-> password, doc |-> users[u]])]
                    /\ UNCHANGED reply
    /\ UNCHANGED <<now, userVars, industryVars, contactVars, pollVars, workshopVars,
                   feedbackVars, updateVars>>

\* await bcrypt.compare(password, user.password) on the document read, its
\* check, then a token with the id and role of the document read
LoginCompare(r) ==
    /\ Awaits(r, "login")
    /\ LET q == opReq[r]
       IN IF ~Compare(q.body.password, q.body.doc.password)
          THEN /\ reply' = Reply("login", "", q.target, 400, "Invalid Credentials")
               /\ UNCHANGED tokens
          ELSE /\ tokens' = tokens \cup { [id |-> q.target, role |-> q.body.doc.role] }
               /\ reply' = Reply("login", "", q.target, 200, "token")
    /\ opReq' = [opReq EXCEPT ![r] = IdleOp]
    /\ UNCHANGED <<now, users, userSeq, industryVars, contactVars, pollVars,
                   workshopVars, feedbackVars, updateVars>>

(***************************************************************************)
(* The state after the server has started on an empty database.            *)
(***************************************************************************)
Init ==
    /\ now = 0
    /\ reply = Reply("", "", 0, 0, "")
    /\ polls = << >>
    /\ pollSeq = 0
    /\ voteReq = [ r \in VoteReqIds |-> IdleVote ]
    /\ voteOk = << >>
    /\ workshops = << >>
    /\ workshopSeq = 0
    /\ regReq = [ r \in RegReqIds |-> IdleReg ]
    /\ questions = << >>
    /\ questionSeq = 0
    /\ responses = << >>
    /\ responseSeq = 0
    /\ submitReq = [ r \in SubmitReqIds |-> IdleSubmit ]
    /\ delReq = [ d \in DelReqIds |-> IdleDel ]
    /\ updates = << >>
    /\ updateSeq = 0
    /\ industries = << >>
    /\ industrySeq = 0
    /\ contacts = << >>
    /\ contactSeq = 0
    /\ users = << >>
    /\ userSeq = 0
    /\ tokens = {}
    /\ opReq = [ r \in OpReqIds |-> IdleOp ]

(***************************************************************************)
(* Specifications: one per resource, with its requests interleaved at the  *)
(* awaits of their handlers, and one with them handled one at a time (a    *)
(* request enters its handler when no other request is in flight).         *)
(***************************************************************************)
\* the number of requests between two awaits of their handlers
InFlight ==
    Cardinality(VotesInFlight) + Cardinality(RegsInFlight) + Cardinality(SubmitsInFlight)
       + Cardinality(DelsInFlight) + Cardinality(OpsInFlight)

\* whether a request may enter its handler now: when no other request is in
\* flight where requests are handled one at a time, and when fewer than
\* MaxInFlight are where they are handled concurrently
MayBegin(serial) == IF serial THEN InFlight = 0 ELSE InFlight < MaxInFlight

\* the polls router; polls are created with a number of options in options
PollRequests(serial, options) ==
    \/ /\ MayBegin(serial)
       /\ \E c \in Callers, n \in options, e \in ExpiresAtInputs : CreatePoll(c, n, e)
    \/ /\ MayBegin(serial)
       /\ \E r \in OpReqIds, c \in Callers, p \in PollIdInputs : DeletePollFind(r, c, p)
    \/ \E r \in OpReqIds : DeletePollRemove(r)
    \/ /\ MayBegin(serial)
       /\ \E r \in VoteReqIds, c \in Callers, p \in PollIdInputs, o \in OptionIdInputs :
             VoteBegin(r, c, p, o)
    \/ \E r \in VoteReqIds : VoteSave(r)

NextPoll == Clock(MaxTime) \/ PollRequests(FALSE, 1..MaxOptions)

SpecPoll == Init /\ [][NextPoll]_vars

NextPollSerial == Clock(MaxTime) \/ PollRequests(TRUE, 1..MaxOptions)

SpecPollSerial == Init /\ [][NextPollSerial]_vars

\* create, update and delete of the workshops router
WorkshopEdits(serial) ==
    \/ /\ MayBegin(serial)
       /\ \E c \in Callers, n \in CapacityInputs : CreateWorkshop(c, n)
    \/ /\ MayBegin(serial)
       /\ \E r \in OpReqIds, c \in Callers, w \in WorkshopIdInputs, n \in CapacityInputs,
             u \in RegisteredUsersInputs : PutWorkshopFind(r, c, w, n, u)
    \/ \E r \in OpReqIds : PutWorkshopUpdate(r)
    \/ /\ MayBegin(serial)
       /\ \E r \in OpReqIds, c \in Callers, w \in WorkshopIdInputs : DeleteWorkshopFind(r, c, w)
    \/ \E r \in OpReqIds : DeleteWorkshopRemove(r)

\* registration on a workshop
WorkshopRegistrations(serial) ==
    \/ /\ MayBegin(serial)
       /\ \E r \in RegReqIds, c \in Callers, w \in WorkshopIdInputs : RegBegin(r, c, w)
    \/ \E r \in RegReqIds : RegSave(r)

NextWorkshop == WorkshopEdits(FALSE) \/ WorkshopRegistrations(FALSE)

SpecWorkshop == Init /\ [][NextWorkshop]_vars

\* Create, update and delete of workshops, interleaved at their awaits.
NextWorkshopPut == WorkshopEdits(FALSE)

SpecWorkshopPut == Init /\ [][NextWorkshopPut]_vars

NextWorkshopSerial == WorkshopEdits(TRUE) \/ WorkshopRegistrations(TRUE)

SpecWorkshopSerial == Init /\ [][NextWorkshopSerial]_vars

\* the questions of the feedback router and the submission of responses
QuestionRequests(serial) ==
    \/ /\ MayBegin(serial)
       /\ \E c \in Callers, v \in BOOLEAN, e \in ExpiresAtInputs : CreateQuestion(c, v, e)
    \/ /\ MayBegin(serial)
       /\ \E q \in QuestionIdInputs : GetQuestion(q)
    \/ /\ MayBegin(serial)
       /\ \E r \in OpReqIds, c \in Callers, q \in QuestionIdInputs, v \in BOOLEAN,
             a \in IsActiveInputs, e \in ExpiresAtInputs : PutQuestionFind(r, c, q, v, a, e)
    \/ \E r \in OpReqIds : PutQuestionSave(r)
    \/ /\ MayBegin(serial)
       /\ \E d \in DelReqIds, c \in Callers, q \in QuestionIdInputs : DelBegin(d, c, q)
    \/ \E d \in DelReqIds : DelCount(d)
    \/ \E d \in DelReqIds : DelFinish(d)
    \/ /\ MayBegin(serial)
       /\ \E r \in SubmitReqIds, c \in Callers, v \in BOOLEAN, q \in QuestionIdInputs :
             SubmitBegin(r, c, v, q)
    \/ \E r \in SubmitReqIds : SubmitFind(r)
    \/ \E r \in SubmitReqIds : SubmitSave(r)

\* comment, status change and delete of a response
ResponseRequests(serial) ==
    \/ /\ MayBegin(serial)
       /\ \E r \in OpReqIds, c \in Callers, i \in ResponseIdInputs, v \in BOOLEAN :
             CommentResponseFind(r, c, i, v)
    \/ \E r \in OpReqIds : ResponseSave(r, "commentResponse")
    \/ /\ MayBegin(serial)
       /\ \E r \in OpReqIds, c \in Callers, i \in ResponseIdInputs, t \in StatusInputs :
             StatusResponseFind(r, c, i, t)
    \/ \E r \in OpReqIds : ResponseSave(r, "statusResponse")
    \/ /\ MayBegin(serial)
       /\ \E r \in OpReqIds, c \in Callers, i \in ResponseIdInputs : DeleteResponseFind(r, c, i)
    \/ \E r \in OpReqIds : DeleteResponseRemove(r)

\* Creation, update and deletion of questions and the submission of
\* responses, interleaved at the awaits of their handlers.
NextFeedback == Clock(MaxTime) \/ QuestionRequests(FALSE)

SpecFeedback == Init /\ [][NextFeedback]_vars

\* the feedback router, its requests handled one at a time
FeedbackRequests == QuestionRequests(TRUE) \/ ResponseRequests(TRUE)

NextFeedbackSerial == Clock(MaxTime) \/ FeedbackRequests

SpecFeedbackSerial == Init /\ [][NextFeedbackSerial]_vars

\* the updates router
UpdateRequests(serial) ==
    \/ /\ MayBegin(serial)
       /\ \E c \in Callers, f \in BOOLEAN, t \in TypeInputs, url \in RedirectUrlInputs :
             CreateUpdate(c, f, t, url)
    \/ /\ MayBegin(serial)
       /\ \E r \in OpReqIds, c \in Callers, u \in UpdateIdInputs, f \in BOOLEAN,
             t \in TypeInputs, url \in RedirectUrlInputs : PutUpdateFind(r, c, u, f, t, url)
    \/ \E r \in OpReqIds : PutUpdateUpdate(r)
    \/ /\ MayBegin(serial)
       /\ \E r \in OpReqIds, c \in Callers, u \in UpdateIdInputs : DeleteUpdateFind(r, c, u)
    \/ \E r \in OpReqIds : DeleteUpdateRemove(r)

NextUpdate == UpdateRequests(FALSE)

SpecUpdate == Init /\ [][NextUpdate]_vars

\* the industries router
IndustryRequests(serial) ==
    \/ /\ MayBegin(serial)
       /\ \E c \in Callers, m \in BOOLEAN, v \in BOOLEAN : CreateIndustry(c, m, v)
    \/ /\ MayBegin(serial)
       /\ \E r \in OpReqIds, c \in Callers, i \in IndustryIdInputs, m \in BOOLEAN,
             d \in DescriptionInputs, o \in OwnerInputs : PutIndustryFind(r, c, i, m, d, o)
    \/ \E r \in OpReqIds : PutIndustryUpdate(r)
    \/ /\ MayBegin(serial)
       /\ \E r \in OpReqIds, c \in Callers, i \in IndustryIdInputs : DeleteIndustryFind(r, c, i)
    \/ \E r \in OpReqIds : DeleteIndustryRemove(r)
    \/ /\ MayBegin(serial)
       /\ \E i \in IndustryIdInputs : GetIndustry(i)

NextIndustry == IndustryRequests(FALSE)

SpecIndustry == Init /\ [][NextIndustry]_vars

\* the emergency router
ContactRequests(serial) ==
    \/ /\ MayBegin(serial)
       /\ \E c \in Callers, v \in BOOLEAN, g \in CategoryInputs : CreateContact(c, v, g)
    \/ /\ MayBegin(serial)
       /\ \E r \in OpReqIds, c \in Callers, k \in ContactIdInputs, v \in BOOLEAN,
             g \in CategoryInputs : PutContactFind(r, c, k, v, g)
    \/ \E r \in OpReqIds : PutContactUpdate(r)
    \/ /\ MayBegin(serial)
       /\ \E r \in OpReqIds, c \in Callers, k \in ContactIdInputs : DeleteContactFind(r, c, k)
    \/ \E r \in OpReqIds : DeleteContactRemove(r)

\* the auth router; the clock stops at max
AccountRequests(serial, max) ==
    \/ /\ MayBegin(serial)
       /\ \E r \in OpReqIds, c \in Callers, v \in BOOLEAN, e \in EmailInputs,
             p \in RegisterPasswordInputs : RegisterFind(r, c, v, e, p)
    \/ \E r \in OpReqIds : RegisterSave(r)
    \/ /\ MayBegin(serial)
       /\ \E r \in OpReqIds, v \in BOOLEAN, e \in EmailInputs, p \in RegisterPasswordInputs :
             AdminRegisterFind(r, v, e, p)
    \/ \E r \in OpReqIds : AdminRegisterSave(r)
    \/ /\ MayBegin(serial)
       /\ \E r \in OpReqIds, v \in BOOLEAN, e \in EmailInputs, p \in LoginPasswordInputs :
             LoginFind(r, v, e, p)
    \/ \E r \in OpReqIds : LoginCompare(r)
    \/ /\ MayBegin(serial)
       /\ \E r \in OpReqIds, c \in Callers, u \in UserIdInputs : ToggleStatusFind(r, c, u)
    \/ \E r \in OpReqIds : ToggleStatusSave(r)
    \/ /\ MayBegin(serial)
       /\ \E r \in OpReqIds, c \in Callers, u \in UserIdInputs, m \in MonthsInputs,
             h \in { t \in now..(now + 1) : t <= max } : ReactivateFind(r, c, u, m, h)
    \/ \E r \in OpReqIds : ReactivateSave(r)
    \/ /\ MayBegin(serial)
       /\ \E r \in OpReqIds, c \in Callers, u \in UserIdInputs : DeleteUserFind(r, c, u)
    \/ \E r \in OpReqIds : DeleteUserRemove(r)

\* The auth router, its requests interleaved at the awaits of their handlers;
\* time in months, up to MaxTime.
NextUser == Clock(MaxTime) \/ AccountRequests(FALSE, MaxTime)

SpecUser == Init /\ [][NextUser]_vars

\* The auth router, its requests handled one at a time, over the months it
\* takes a new user to expire.
NextUserSerial == Clock(MaxUserTime) \/ AccountRequests(TRUE, MaxUserTime)

SpecUserSerial == Init /\ [][NextUserSerial]_vars

\* The polls router with its two listings, the requests handled one at a
\* time; polls are created with at most MinOptions options.
NextPollList ==
    \/ Clock(MaxTime)
    \/ PollRequests(TRUE, 1..MinOptions)
    \/ /\ MayBegin(TRUE)
       /\ \E t \in TokenInputs : GetPolls(t)
    \/ /\ MayBegin(TRUE)
       /\ \E t \in TokenInputs : GetPollsAdmin(t)

SpecPollList == Init /\ [][NextPollList]_vars

\* req.user as decoded from a token issued by login or admin registration:
\* the id is the string form of the user's _id
SessionCaller(token) == [id |-> ToString(token.id), role |-> token.role]

\* The auth router and the polls router, the votes sent by users with the
\* token that login or admin registration gave them; requests handled one at
\* a time, the clock standing still, polls created with at most MinOptions
\* options.
NextSession ==
    \/ AccountRequests(TRUE, 0)
    \/ /\ MayBegin(TRUE)
       /\ \E c \in Callers, n \in 1..MinOptions, e \in ExpiresAtInputs : CreatePoll(c, n, e)
    \/ /\ MayBegin(TRUE)
       /\ \E r \in OpReqIds, c \in Callers, p \in PollIdInputs : DeletePollFind(r, c, p)
    \/ \E r \in OpReqIds : DeletePollRemove(r)
    \/ /\ MayBegin(TRUE)
       /\ \E r \in VoteReqIds, t \in tokens, p \in PollIdInputs, o \in OptionIdInputs :
             VoteBegin(r, SessionCaller(t), p, o)
    \/ \E r \in VoteReqIds : VoteSave(r)

SpecSession == Init /\ [][NextSession]_vars

\* the number of documents each router has stored so far
Stored ==
    [polls |-> pollSeq, workshops |-> workshopSeq, feedback |-> questionSeq,
     updates |-> updateSeq, industries |-> industrySeq, emergency |-> contactSeq,
     auth |-> userSeq]

\* no router but this one has stored a document
Only(router) == \A r \in DOMAIN Stored : r # router => Stored[r] = 0

\* All routers, with the requests handled one at a time.  The routers share
\* no collection, so a behaviour sends its requests to one router: the first
\* one that stores a document.
NextServer ==
    \/ Clock(MaxTime)
    \/ /\ Only("polls")
       /\ PollRequests(TRUE, 1..MaxOptions)
    \/ /\ Only("workshops")
       /\ NextWorkshopSerial
    \/ /\ Only("feedback")
       /\ FeedbackRequests
    \/ /\ Only("updates")
       /\ UpdateRequests(TRUE)
    \/ /\ Only("industries")
       /\ IndustryRequests(TRUE)
    \/ /\ Only("emergency")
       /\ ContactRequests(TRUE)
    \/ /\ Only("auth")
       /\ AccountRequests(TRUE, MaxTime)

SpecServer == Init /\ [][NextServer]_vars

\* The list routes, next to the other requests of the routers handled one at
\* a time.
NextList ==
    \/ NextServer
    \/ \E t \in TokenInputs : GetIndustries(t)
    \/ \E t \in TokenInputs : GetUpdates(t)
    \/ \E t \in TokenInputs : GetContacts(t)
    \/ \E t \in TokenInputs : GetWorkshops(t)
    \/ \E t \in TokenInputs : GetPolls(t)

SpecList == Init /\ [][NextList]_vars

(***************************************************************************)
(* Claims about polls.                                                     *)
(***************************************************************************)
\* C1: in every reachable state, for every poll and every user, the user's id
\* occurs at most once in the poll's votedBy, also when vote requests by the
\* same user are handled concurrently.
C1_VotedByAtMostOnce ==
    \A p \in DOMAIN polls : \A c \in Callers :
        Occurrences(polls[p].votedBy, c.id) <= 1

\* C2: in every reachable state, for every poll, the sum of its options' vote
\* counts equals the number of vote requests on it answered with success,
\* also when votes by different users are handled concurrently.
C2_TotalEqualsAccepted ==
    \A p \in DOMAIN polls : SumSeq(polls[p].options) = voteOk[p]

\* this step answers a vote request by a user who was already in the
\* votedBy of the poll when the request read it
RevoteAnswered ==
    /\ reply' # reply
    /\ reply'.op = "vote"
    /\ VotesInFlight = {}
    /\ reply'.target \in DOMAIN polls
    /\ Occurrences(polls[reply'.target].votedBy, reply'.user) >= 1

VoteConflict(rep) ==
    rep.op = "vote" /\ rep.status = 400 /\ rep.msg = "You have already voted on this poll"

VoteExpired(rep) ==
    rep.op = "vote" /\ rep.status = 400 /\ rep.msg = "This poll has expired"

\* C3 as stated: with requests handled one after the other, a vote by a user
\* already in the poll's votedBy is answered with the conflict error and
\* leaves the poll collection unchanged.
C3_RevoteConflictAlways ==
    [][RevoteAnswered => VoteConflict(reply') /\ polls' = polls]_vars

\* C3 amended: with requests handled one after the other, a vote by a user
\* already in the poll's votedBy is rejected and leaves the poll collection
\* unchanged; the error is the conflict error when the poll has not expired
\* (expiresAt >= now) and the expired error when it has.
C3_RevoteRejected ==
    [][RevoteAnswered =>
          /\ polls' = polls
          /\ IF polls[reply'.target].expiresAt < now
             THEN VoteExpired(reply')
             ELSE VoteConflict(reply')]_vars

\* C3 witness: the last response is the conflict error, to a user whose one
\* accepted vote is recorded on the poll.
C3_Witness ==
    /\ VoteConflict(reply)
    /\ reply.target \in DOMAIN polls
    /\ Occurrences(polls[reply.target].votedBy, reply.user) = 1
    /\ SumSeq(polls[reply.target].options) >= 1

(***************************************************************************)
(* Claims about workshops.                                                 *)
(***************************************************************************)
\* C4: in every reachable state, for every workshop, the number of entries in
\* registeredUsers is at most capacity, also when register requests by
\* different users are handled concurrently.
C4_RegisteredWithinCapacity ==
    \A w \in DOMAIN workshops :
        Num(Len(workshops[w].registeredUsers)) <= workshops[w].capacity

\* C5: in every reachable state, for every workshop and every user, the
\* user's id occurs at most once in registeredUsers, also when register
\* requests by the same user are handled concurrently.
C5_RegisteredAtMostOnce ==
    \A w \in DOMAIN workshops : \A c \in Callers :
        Occurrences(workshops[w].registeredUsers, c.id) <= 1

RegConflict(rep) ==
    rep.op = "register" /\ rep.status = 400 /\ rep.msg = "User already registered"

RegFull(rep) ==
    rep.op = "register" /\ rep.status = 400 /\ rep.msg = "Workshop is full"

\* C6: with requests handled one at a time, a register request by a user not
\* yet registered on a workshop whose registeredUsers size equals capacity is
\* rejected with the workshop-full error, a register request by a user already
\* in registeredUsers is rejected with the already-registered error, and in
\* both cases the workshop collection is unchanged.
C6_FullAndDuplicateRejected ==
    [][\A c \in Callers, w \in DOMAIN workshops, r \in RegReqIds :
          RegBegin(r, c, w) =>
             LET doc == workshops[w]
                 n == Occurrences(doc.registeredUsers, c.id)
             IN /\ (n = 0 /\ Num(Len(doc.registeredUsers)) = doc.capacity)
                      => (RegFull(reply') /\ reply'.user = c.id /\ reply'.target = w
                          /\ workshops' = workshops /\ regReq' = regReq)
                /\ n >= 1
                      => (RegConflict(reply') /\ reply'.user = c.id /\ reply'.target = w
                          /\ workshops' = workshops /\ regReq' = regReq)]_vars

\* C6 witness: the last response is the workshop-full error, to a user who is
\* not registered on a workshop that another user's registration has filled
\* to its capacity.
C6_Witness ==
    /\ RegFull(reply)
    /\ reply.target \in DOMAIN workshops
    /\ LET doc == workshops[reply.target]
       IN /\ Num(Len(doc.registeredUsers)) = doc.capacity
          /\ doc.capacity >= Num(1)
          /\ Occurrences(doc.registeredUsers, reply.user) = 0

(***************************************************************************)
(* Claims about feedback.                                                  *)
(***************************************************************************)
\* C7: in every reachable state there is at most one FeedbackResponse for
\* each (feedbackId, createdBy) pair, also when two submissions by the same
\* user for the same question are handled concurrently.
C7_OneResponsePerUserAndQuestion ==
    \A i, j \in DOMAIN responses :
        (/\ responses[i].feedbackId = responses[j].feedbackId
         /\ responses[i].createdBy = responses[j].createdBy) => i = j

DelDeactivated(rep) ==
    /\ rep.op = "deleteQuestion"
    /\ rep.status = 200
    /\ rep.msg = "Feedback question deactivated (has responses)"

DelRemoved(rep) ==
    rep.op = "deleteQuestion" /\ rep.status = 200 /\ rep.msg = "Feedback question removed"

\* C8: with no concurrent request, an admin's delete of a stored question Q
\* ends in one of two ways: when a response references Q, Q stays stored with
\* isActive = false, get-by-id still returns it and the message is the
\* deactivation message; when none does, Q is removed, get-by-id answers 404
\* and the message is the removal message, which differs from the other.
C8_DeleteTwoOutcomes ==
    [][\A d \in DelReqIds :
          (delReq[d].pc = "counted" /\ delReq'[d].pc = "idle") =>
             LET q == delReq[d].question
             IN /\ reply'.target = q
                /\ IF ResponsesOf(responses, q) # {}
                   THEN /\ DelDeactivated(reply')
                        /\ ~DelRemoved(reply')
                        /\ q \in DOMAIN questions'
                        /\ questions'[q].isActive = FALSE
                        /\ GetQuestionById(questions', q).status = 200
                        /\ GetQuestionById(questions', q).body = Some(questions'[q])
                   ELSE /\ DelRemoved(reply')
                        /\ ~DelDeactivated(reply')
                        /\ q \notin DOMAIN questions'
                        /\ GetQuestionById(questions', q).status = 404]_vars

\* C8 witness: the last response is the deactivation message for a question
\* that a response references, and the question is stored with isActive false.
C8_Witness ==
    /\ DelDeactivated(reply)
    /\ reply.target \in DOMAIN questions
    /\ ~questions[reply.target].isActive
    /\ ResponsesOf(responses, reply.target) # {}

\* C9: in every reachable state every stored FeedbackResponse references a
\* FeedbackQuestion that is in the store, also when a question delete is
\* interleaved with a submission for the same question.
C9_ResponsesReferenceStoredQuestion ==
    \A i \in DOMAIN responses : responses[i].feedbackId \in DOMAIN questions

(***************************************************************************)
(* Claims about updates.                                                   *)
(***************************************************************************)
\* C10: after any sequence of create and PUT requests, every stored Update
\* whose type is not blogs has no redirectUrl.
C10_NonBlogHasNoRedirectUrl ==
    \A u \in DOMAIN updates :
        updates[u].type # "blogs" => updates[u].redirectUrl = None

\* C11: every stored Update of type blogs has a non-empty redirectUrl: a
\* create request and a PUT request with type blogs and no redirectUrl are
\* both rejected and store nothing.
C11_BlogsHaveRedirectUrl ==
    \A u \in DOMAIN updates :
        updates[u].type = "blogs" => ~Falsy(updates[u].redirectUrl)

(***************************************************************************)
(* Claims about industries.                                                *)
(***************************************************************************)
AuthorizationError(rep) == rep.status \in {401, 403}

\* C12: for every stored Industry and every authenticated caller, PUT and
\* DELETE are rejected with an authorization error and leave the Industry
\* unchanged when the caller is neither its owner nor an admin, and succeed
\* when the caller is its owner or an admin.
C12_OwnerOrAdminOnly ==
    [][\A r \in OpReqIds :
          /\ \A c \in Callers, i \in DOMAIN industries :
                /\ \A m \in BOOLEAN, d \in DescriptionInputs, o \in OwnerInputs :
                      PutIndustryFind(r, c, i, m, d, o) =>
                         IF industries[i].owner = c.id \/ c.role = "admin"
                         THEN Awaits(r, "putIndustry")'
                         ELSE /\ AuthorizationError(reply')
                              /\ industries' = industries
                              /\ opReq' = opReq
                /\ DeleteIndustryFind(r, c, i) =>
                      IF industries[i].owner = c.id \/ c.role = "admin"
                      THEN Awaits(r, "deleteIndustry")'
                      ELSE /\ AuthorizationError(reply')
                           /\ industries' = industries
                           /\ opReq' = opReq
          /\ PutIndustryUpdate(r) => reply'.status = 200
          /\ DeleteIndustryRemove(r) =>
                reply'.status = 200 /\ opReq[r].target \notin DOMAIN industries']_vars

(***************************************************************************)
(* Claims about the admin-only operations.                                 *)
(***************************************************************************)
Rejected(rep) == rep.status \in {400, 401, 403}

\* the operations of the admin-only handlers, as reply names them
AdminOnlyOps ==
    {"createContact", "putContact", "deleteContact",
     "createUpdate", "putUpdate", "deleteUpdate",
     "createWorkshop", "putWorkshop", "deleteWorkshop",
     "createQuestion", "putQuestion", "deleteQuestion",
     "createPoll", "deletePoll",
     "commentResponse", "statusResponse"}

\* C13: for every admin-only mutating operation (create, update and delete of
\* EmergencyContact, Update, Workshop and FeedbackQuestion; create and delete
\* of Poll; comment and status change of FeedbackResponse), a caller whose
\* token role is not admin is rejected and the affected collection is
\* unchanged, in every store state.  Stated on the step that sends the
\* response: a response to such an operation by a caller who is not admin is
\* a rejection, and the step leaves the collections as they were.
C13_AdminOnly ==
    [][(/\ reply'.op \in AdminOnlyOps
        /\ \E c \in Callers : c.id = reply'.user /\ c.role # "admin")
          => /\ Rejected(reply')
             /\ <<contacts, updates, workshops, questions, polls, responses>>'
                   = <<contacts, updates, workshops, questions, polls, responses>>]_vars

\* C13 witness: the last response rejects, as not authorized, a member's
\* status change of a stored feedback response, which is still pending.
C13_Witness ==
    /\ reply.op = "statusResponse"
    /\ reply.status = 401
    /\ \E c \in Callers : c.id = reply.user /\ c.role = "member"
    /\ reply.target \in DOMAIN responses
    /\ responses[reply.target].status = "pending"

(***************************************************************************)
(* Claims about users.                                                     *)
(***************************************************************************)
TokenReply(rep) == rep.status = 200 /\ rep.msg = "token"

\* C14 as stated: a login request returns a token and role only if a user
\* with the given email exists, the supplied password matches the stored hash
\* and the user's stored status is active, all three of the user as stored
\* when the token is issued; in each of the three failing cases no token is
\* issued.
C14_TokenOnlyIfStoredActive ==
    [][\A r \in OpReqIds :
          /\ \A v \in BOOLEAN, e \in EmailInputs, p \in LoginPasswordInputs :
                LoginFind(r, v, e, p) =>
                   IF \E u \in DOMAIN users : users[u].email = e /\ users[u].status = "active"
                   THEN /\ tokens' = tokens
                        /\ v => /\ Awaits(r, "login")'
                                /\ users[opReq'[r].target].email = e
                                /\ opReq'[r].body.password = p
                   ELSE /\ reply'.op = "login"
                        /\ ~TokenReply(reply')
                        /\ tokens' = tokens
                        /\ opReq' = opReq
          /\ LoginCompare(r) =>
                LET u == opReq[r].target
                    ok == /\ u \in DOMAIN users
                          /\ users[u].password = Hash(opReq[r].body.password)
                          /\ users[u].status = "active"
                IN /\ TokenReply(reply') =>
                         /\ ok
                         /\ reply'.target = u
                         /\ [id |-> u, role |-> users[u].role] \in tokens'
                   /\ ~ok => ~TokenReply(reply') /\ tokens' = tokens]_vars

\* C14 amended: a login request returns a token and role only if, when the
\* handler looked the user up, a user with the given email was stored with
\* status active, and the supplied password matches the hash of the document
\* read then; in each of the three failing cases no token is issued.  The
\* handler answers the first and the third case at its lookup and the second
\* after its comparison, which it makes on the document it read.
C14_TokenOnlyIfReadActive ==
    [][\A r \in OpReqIds :
          /\ \A v \in BOOLEAN, e \in EmailInputs, p \in LoginPasswordInputs :
                LoginFind(r, v, e, p) =>
                   IF \E u \in DOMAIN users : users[u].email = e /\ users[u].status = "active"
                   THEN /\ tokens' = tokens
                        /\ v => /\ Awaits(r, "login")'
                                /\ opReq'[r].target \in DOMAIN users
                                /\ users[opReq'[r].target].email = e
                                /\ users[opReq'[r].target].status = "active"
                                /\ opReq'[r].body =
                                      [password |-> p, doc |-> users[opReq'[r].target]]
                   ELSE /\ reply'.op = "login"
                        /\ ~TokenReply(reply')
                        /\ tokens' = tokens
                        /\ opReq' = opReq
          /\ LoginCompare(r) =>
                LET u == opReq[r].target
                    read == opReq[r].body.doc
                    ok == /\ read.password = Hash(opReq[r].body.password)
                          /\ read.status = "active"
                IN /\ TokenReply(reply') =>
                         /\ ok
                         /\ reply'.target = u
                         /\ [id |-> u, role |-> read.role] \in tokens'
                   /\ ~ok => ~TokenReply(reply') /\ tokens' = tokens]_vars

\* C14 witness: the last response gives a token to a login, and the user it
\* names is stored with status inactive: the user was deactivated between the
\* lookup of the login handler and its response.
C14_Witness ==
    /\ reply.op = "login"
    /\ TokenReply(reply)
    /\ reply.target \in DOMAIN users
    /\ users[reply.target].status = "inactive"
    /\ \E t \in tokens : t.id = reply.target

\* C15: a login attempt for a user whose expiryDate is earlier than the
\* current time is rejected as inactive, even when the stored status is still
\* active because the user has not been saved since the expiry date passed.
C15_ExpiredLoginRejected ==
    [][\A r \in OpReqIds :
          /\ \A e \in EmailInputs, p \in LoginPasswordInputs :
                (/\ LoginFind(r, TRUE, e, p)
                 /\ \E u \in DOMAIN users : /\ users[u].email = e
                                             /\ users[u].expiryDate < now)
                   => reply'.status = 403 /\ tokens' = tokens /\ opReq' = opReq
          /\ (/\ LoginCompare(r)
              /\ opReq[r].target \in DOMAIN users
              /\ users[opReq[r].target].expiryDate < now)
                => reply'.status = 403 /\ tokens' = tokens]_vars

\* C16: a registration request that carries no admin token never creates a
\* user with role admin and never returns a token encoding role admin: every
\* step that stores a new admin user, or issues a token with role admin for a
\* user stored in that step, answers a request by an authenticated admin.
C16_AdminsOnlyByAdmins ==
    [][(\E u \in DOMAIN users' \ DOMAIN users :
           \/ users'[u].role = "admin"
           \/ [id |-> u, role |-> "admin"] \in tokens')
          => \E c \in Callers : c.role = "admin" /\ reply'.user = c.id]_vars

(***************************************************************************)
(* Claims about the public read routes.                                    *)
(***************************************************************************)
\* C17: a GET request without any token to each of the list endpoints
\* /api/industries, /api/updates, /api/emergency, /api/polls and
\* /api/workshops returns status 200 and the current list.
C17_ListsArePublic ==
    [][(\/ GetIndustries(None)
        \/ GetUpdates(None)
        \/ GetContacts(None)
        \/ GetPolls(None)
        \/ GetWorkshops(None)) => reply'.status = 200]_vars

\* C18: GET /api/industries/:id returns 404 exactly when no industry with
\* that id is stored; in particular a request for an id right after its
\* successful DELETE returns 404, and a request before it (when the DELETE
\* has found the industry) returns the document.
C18_NotFoundIffNotStored ==
    [][/\ \A i \in IndustryIdInputs :
             GetIndustry(i) => (reply'.status = 404 <=> i \notin DOMAIN industries)
       /\ \A r \in OpReqIds :
             /\ \A c \in Callers, i \in IndustryIdInputs :
                   (DeleteIndustryFind(r, c, i) /\ Awaits(r, "deleteIndustry")')
                      => /\ GetIndustryById(industries, i).status = 200
                         /\ GetIndustryById(industries, i).body = Some(industries[i])
             /\ DeleteIndustryRemove(r)
                   => /\ reply'.status = 200
                      /\ GetIndustryById(industries', opReq[r].target).status = 404
                      /\ GetIndustryById(industries', opReq[r].target).body = None]_vars

\* C18 witness: the last response is the 404 to a GET of an industry that was
\* stored and has been deleted.
C18_Witness ==
    /\ reply.op = "getIndustry"
    /\ reply.status = 404
    /\ reply.target \in 1..industrySeq
    /\ reply.target \notin DOMAIN industries

(***************************************************************************)
(* Claims about the order of checks and about rejected requests.           *)
(***************************************************************************)
\* C19: for every by-id mutating endpoint the checks run in the order
\* existence, authorization, validation: a request for an id that is not
\* stored is answered not-found even when the caller lacks authorization, a
\* caller without authorization is answered with an authorization error on a
\* stored id, and an authorized caller sending invalid input for a stored id
\* is answered with a validation error.  Stated on PUT and DELETE
\* /api/updates/:id, whose checks all precede the second store call.
C19_ExistenceAuthorizationValidation ==
    [][\A r \in OpReqIds, c \in Callers, u \in UpdateIdInputs :
          /\ (DeleteUpdateFind(r, c, u) /\ u \notin DOMAIN updates) => reply'.status = 404
          /\ \A f \in BOOLEAN, t \in TypeInputs, url \in RedirectUrlInputs :
                PutUpdateFind(r, c, u, f, t, url) =>
                   IF u \notin DOMAIN updates THEN reply'.status = 404
                   ELSE IF ~IsAdmin(c) THEN AuthorizationError(reply')
                   ELSE ~PutBodyValid(f, t, url) => reply'.status = 400]_vars

\* the statuses of the validation, authentication, authorization, not-found,
\* conflict, expired and capacity errors
ErrorReply(rep) == rep.status \in {400, 401, 403, 404}

\* C20: a request answered with a validation, authentication, authorization,
\* not-found, conflict, expired or capacity error leaves every collection
\* exactly as it was before the request: every step that sends such a
\* response changes no collection.  (A step that sends a response is a step
\* that changes reply; the same request in the same collections after a
\* different response is such a step.)
C20_ErrorsLeaveCollectionsUnchanged ==
    [][(reply' # reply /\ ErrorReply(reply'))
          => <<polls, workshops, questions, responses, updates, industries,
               contacts, users>>'
             = <<polls, workshops, questions, responses, updates, industries,
                 contacts, users>>]_vars

\* C20 witness: the last response rejects an admin's PUT that would turn a
\* stored update into a blog post without a redirect URL, and the stored
\* update is no blog post.
C20_Witness ==
    /\ reply.op = "putUpdate"
    /\ reply.status = 400
    /\ reply.msg = "Redirect URL is required for blog posts"
    /\ reply.target \in DOMAIN updates
    /\ updates[reply.target].type # "blogs"

(***************************************************************************)
(* Claims about the vote's preconditions.                                  *)
(***************************************************************************)
\* C21: a vote on a poll is accepted only when the current time is strictly
\* earlier than the poll's expiresAt; a vote arriving at a time equal to or
\* later than expiresAt is rejected as expired and leaves the poll unchanged.
C21_VoteNeedsStrictlyEarlier ==
    [][\A r \in VoteReqIds, c \in Callers, p \in PollIdInputs, o \in OptionIdInputs :
          (/\ VoteBegin(r, c, p, o)
           /\ p \in DOMAIN polls
           /\ ~(now < polls[p].expiresAt))
             => /\ reply' = Reply("vote", c.id, p, 400, "This poll has expired")
                /\ voteReq' = voteReq]_vars

\* C22: a vote by a user who has not yet voted on an unexpired poll, whose
\* optionId is not an integer index i with 0 <= i < number of options (out of
\* range, negative, or missing from the body), is rejected with a validation
\* error, not a server error, and leaves all vote counts and votedBy
\* unchanged.
C22_BadOptionIsBadRequest ==
    [][\A r \in VoteReqIds, c \in Callers, p \in PollIdInputs, o \in OptionIdInputs :
          (/\ VoteBegin(r, c, p, o)
           /\ p \in DOMAIN polls
           /\ now < polls[p].expiresAt
           /\ ~Includes(polls[p].votedBy, c.id)
           /\ ~(/\ o.number # None
                 /\ 0 <= o.number[1]
                 /\ o.number[1] < Len(polls[p].options)))
             => /\ reply'.status = 400
                /\ voteReq' = voteReq]_vars

(***************************************************************************)
(* Claims about feedback submission and the active listing.                *)
(***************************************************************************)
\* C23: a feedback response submission is accepted only if, at the time of
\* the request, the target question exists, has isActive = true, and either
\* has no expiresAt or the current time is strictly earlier than expiresAt;
\* the questions for which a valid submission passes the handler's checks on
\* the question are those the public active-questions listing returns at the
\* same time.
C23_AcceptedIffListed ==
    [][\A r \in SubmitReqIds, c \in Callers, q \in QuestionIdInputs :
          SubmitBegin(r, c, TRUE, q) =>
             (submitReq'[r].pc = "checked" <=> q \in ListActiveQuestions(questions, now))]_vars

(***************************************************************************)
(* Claims about the PUT of a workshop.                                     *)
(***************************************************************************)
\* C24: every PUT on an Industry, Update, Workshop or EmergencyContact that
\* is answered with success returns the updated document, never an empty or
\* null body, including when a DELETE of the same resource is handled between
\* the PUT handler's existence check and its write.  Stated on PUT
\* /api/workshops/:id.
C24_PutReturnsDocument ==
    (reply.op = "putWorkshop" /\ reply.status = 200)
       => reply.msg # "null"

\* C25: after any sequence of workshop create, update and register requests
\* handled one at a time, every stored workshop has a capacity that is an
\* integer >= 0 and no more registered users than its capacity.
C25_RegisteredWithinCapacity ==
    \A w \in DOMAIN workshops :
       /\ workshops[w].capacity >= 0
       /\ workshops[w].capacity % Num(1) = 0
       /\ Num(Len(workshops[w].registeredUsers)) <= workshops[w].capacity

(***************************************************************************)
(* Claims about reactivation and the save hook of users.                   *)
(***************************************************************************)
\* C26: after a reactivate request by an admin on an existing user is
\* answered with success, the stored user has status active and an expiryDate
\* later than the time of the request, for every value of months supplied in
\* the body.
C26_ReactivatedIsActive ==
    [][\A r \in OpReqIds :
          (ReactivateSave(r) /\ reply'.status = 200)
             => /\ users'[opReq[r].target].status = "active"
                /\ users'[opReq[r].target].expiryDate > opReq[r].body.at]_vars

\* C27: immediately after any save of a user (registration, reactivate,
\* toggle-status), the stored status is inactive if the user's expiryDate is
\* earlier than the save time; in particular toggle-status applied to an
\* inactive user whose expiryDate has passed leaves the user inactive.  The
\* save time is taken at its earliest, the time save() was called: a user
\* stored with an expiryDate earlier than that is stored inactive.
C27_SavedExpiredIsInactive ==
    [][\A r \in OpReqIds :
          (RegisterSave(r) \/ AdminRegisterSave(r) \/ ReactivateSave(r) \/ ToggleStatusSave(r))
             => \A u \in DOMAIN users' :
                   (u \notin DOMAIN users \/ users'[u] # users[u])
                      => (users'[u].expiryDate < opReq[r].body.at
                             => users'[u].status = "inactive")]_vars

(***************************************************************************)
(* Claims about the poll listings.                                         *)
(***************************************************************************)
\* C28: for every user U and poll P, once a vote by U on P has been accepted,
\* P is never again in the list GET /api/polls returns to U, and that list
\* never contains a poll whose expiresAt is earlier than the time of the
\* request; the admin listing returns every stored poll.  An accepted vote
\* puts U in P's votedBy, no later step takes U out of it, and every listing
\* answered for U holds no poll with U in votedBy and no expired poll.
C28_VotedAndExpiredNotListed ==
    [][/\ \A r \in VoteReqIds :
             (VoteSave(r) /\ reply'.status = 200)
                => Includes(polls'[reply'.target].votedBy, reply'.user)
       /\ \A p \in DOMAIN polls \cap DOMAIN polls', c \in Callers :
             Includes(polls[p].votedBy, c.id) => Includes(polls'[p].votedBy, c.id)
       /\ \A c \in Callers :
             GetPolls(Some(c))
                => /\ reply'.status = 200
                   /\ reply'.body \subseteq DOMAIN polls
                   /\ \A p \in reply'.body :
                         /\ ~Includes(polls[p].votedBy, c.id)
                         /\ ~(polls[p].expiresAt < now)
       /\ \A c \in Callers :
             GetPollsAdmin(Some(c)) => reply'.status = 200 /\ reply'.body = DOMAIN polls]_vars

\* C28 witness: the last response is a listing for a user who has voted on a
\* stored poll that has not expired, and the listing does not hold that poll.
C28_Witness ==
    /\ reply.op = "getPolls"
    /\ reply.status = 200
    /\ \E p \in DOMAIN polls :
          /\ Includes(polls[p].votedBy, reply.user)
          /\ polls[p].expiresAt >= now
          /\ p \notin reply.body

(***************************************************************************)
(* Claims about the owner of an industry.                                  *)
(***************************************************************************)
\* C29: the owner field of an Industry is set to the creating caller's id at
\* creation and is never changed by any later PUT on that Industry made by a
\* non-admin caller, whatever fields the request body contains.
C29_OwnerKeptByNonAdminPut ==
    [][/\ \A c \in Callers, m \in BOOLEAN, v \in BOOLEAN :
             (CreateIndustry(c, m, v) /\ reply'.status = 200)
                => industries'[industrySeq'].owner = c.id
       /\ \A r \in OpReqIds :
             (/\ PutIndustryUpdate(r)
              /\ opReq[r].target \in DOMAIN industries
              /\ \E c \in Callers : c.id = opReq[r].user /\ ~IsAdmin(c))
                => industries'[opReq[r].target].owner
                      = industries[opReq[r].target].owner]_vars

(***************************************************************************)
(* Claims about inactive users.                                            *)
(***************************************************************************)
\* C30: once a user's stored status is inactive, no later vote, workshop
\* registration or feedback response submitted by that user is accepted, even
\* when it carries a token issued while the user was active.  Stated on the
\* vote: every vote answered with success was sent by a user whose stored
\* status is active.
C30_InactiveUserCannotVote ==
    [][\A r \in VoteReqIds :
          (VoteSave(r) /\ reply'.status = 200)
             => \A u \in DOMAIN users :
                   ToString(u) = reply'.user => users[u].status = "active"]_vars

====
